---------------------------- MODULE Spec2Model ----------------------------
(***************************************************************************)
(* Model of the mpipy runtime: the framed transport between the worker     *)
(* ranks and the master router (transport.py, protocol.py), the            *)
(* communicator with its filtered recv and collectives (runtime.py), and   *)
(* the job lifecycle of run / cancel_job on the master (runtime.py,        *)
(* launcher.py, worker.py, config.py).                                     *)
(*                                                                         *)
(* Three specifications share the transport actions:                       *)
(*   MsgSpec   point-to-point traffic into one receiving rank              *)
(*   CollSpec  every rank calls gather(v_r, root)                          *)
(*   JobSpec   threads of the master call run, cancel_job, configure_infra *)
(***************************************************************************)
EXTENDS Integers, Sequences, FiniteSets, TLC

(* ----------------------------- bounds --------------------------------- *)
MaxSize == 3
MaxMsgs == 3
MaxRecvs == 2
MaxCancels == 1

(* ------------------------- program constants -------------------------- *)
TAG_USER == 0
TAG_BCAST == 1
TAG_SCATTER == 2
TAG_GATHER == 3
TAG_BARRIER == 4
HELLO_TAG == 100
CANCEL_TAG == 200
DATA == 1
CONTROL == 2
None == -1

TagA == TAG_USER
TagB == TAG_USER + 5

Ranks == 0..(MaxSize - 1)
Workers == 1..(MaxSize - 1)

VARIABLES
    size,        \* Comm.size of the job (world size)
    conns,       \* MasterRouter._connections: ranks with a registered socket
    routeAlive,  \* per worker rank: its _route_loop thread is running
    up,          \* per worker rank: frames written by the worker, unread by the master
    down,        \* per worker rank: frames written by the master, unread by the worker
    inbox,       \* per rank: the transport's inbox queue
    cancel,      \* per rank: the process's _CANCEL_EVENT
    rcv,         \* per rank: the Comm.recv call of the main thread
    arrived,     \* history, per rank: messages in the order they were put in the inbox by a loop
    returned,    \* history, per rank: the recv calls that returned, with their filters
    rx,          \* MsgSpec: the receiving rank
    sentLog,     \* MsgSpec history, per rank: its messages in the order it called Comm.send
    nrecv,       \* MsgSpec: number of recv calls made
    filterMix,   \* MsgSpec history: which kinds of filter the recv calls made so far used
    wire,        \* WireSpec: the latest pack_message call, its frame and what was read back
    wr,          \* WriteSpec: per thread of the master, the sendall call it is in
    acc,         \* AcceptSpec: the accept_all call, its clients and the rank table
    root,        \* CollSpec: the root argument of the collective
    vals,        \* CollSpec: per rank, the value it passes to gather
    gpc,         \* CollSpec: per rank, where its gather call is
    results,     \* CollSpec: per rank, the results list of Comm.gather
    gidx,        \* CollSpec: per rank, the loop variable r of Comm.gather
    plan,        \* collectives: the sequence of calls that every rank executes
    calls,       \* collectives, per rank: number of calls of the plan it has begun
    rets,        \* collectives history, per rank: what its calls returned, in order
    llog,        \* LocalSpec history: the calls made on a LocalComm with their results
    CONFIG,      \* master: config._CONFIG
    JOB_ACTIVE,  \* master: runtime._JOB_ACTIVE
    JOB_LOCK,    \* master: the thread that holds runtime._JOB_LOCK, or "free"
    COMM_WORLD,  \* master: runtime.COMM_WORLD, "None" or "Comm"
    pc,          \* master, per thread that calls run: where it is in run
    cfg,         \* master, per thread: the local cfg of run
    fnOutcome,   \* master, per thread: how fn ended in the running call
    bidx,        \* master: the loop variable r of Comm.barrier on rank 0
    fnSync,      \* the job function ends with comm.barrier() on the worker ranks
    wpc,         \* per worker rank: where its process is in worker_main
    cpc,         \* master: where the thread that calls cancel_job is
    ncancel,     \* number of cancel_job calls that sent frames in this job
    cout,        \* history: how the latest cancel_job call ended
    covl,        \* history: the latest cancel_job call was not made while fn was running
    outcome,     \* history, per thread: how its latest run call ended
    tdown,       \* history, per thread: the teardown steps its latest run call executed
    fresh,       \* history, per thread: its call began after a call returned, alone
    lastEnd      \* history: how the latest finished run call ended

vars == <<size, conns, routeAlive, up, down, inbox, cancel, rcv, arrived, returned,
          rx, sentLog, nrecv, filterMix, wire, wr, acc, root, vals, gpc, results, gidx,
          plan, calls, rets, llog,
          CONFIG, JOB_ACTIVE, JOB_LOCK, COMM_WORLD, pc, cfg, fnOutcome, bidx, fnSync,
          wpc, cpc, ncancel, cout, covl, outcome, tdown, fresh, lastEnd>>

netvars == <<size, conns, routeAlive, up, down, inbox, cancel, rcv, arrived, returned>>
\* what the byte-level and connection-level specifications keep
extvars == <<wire, wr, acc>>
msgvars == <<rx, sentLog, nrecv, filterMix, extvars>>
collvars == <<root, vals, gpc, results, gidx, plan, calls, rets, llog>>
\* what the callers of the communicator keep: no transport thread and no
\* step of a recv call touches it
jobvars == <<CONFIG, JOB_ACTIVE, JOB_LOCK, COMM_WORLD, pc, cfg, fnOutcome, bidx, fnSync,
             wpc, cpc, ncancel, cout, covl, outcome, tdown, fresh, lastEnd>>
appvars == <<msgvars, collvars, jobvars>>

(* ----------------------------- protocol.py ---------------------------- *)
dumps(obj) == <<"pickle", obj>>

loads(payload) == payload[2]

pack_message(msg_type, src, dest, tag, payload) ==
    [length |-> Len(payload), type |-> msg_type, src |-> src, dest |-> dest,
     tag |-> tag, payload |-> payload]

unpack_header(frame) ==
    [length |-> frame.length, type |-> frame.type, src |-> frame.src,
     dest |-> frame.dest, tag |-> frame.tag]

(* ----------------------------- transport.py --------------------------- *)
Message(src, dest, tag, payload) ==
    [src |-> src, dest |-> dest, tag |-> tag, payload |-> payload]

NoMsg == Message(None, None, None, None)

\* WorkerTransport.send: one DATA frame written to the worker's socket
WorkerTransport_send(up_, rank, dest, tag, obj) ==
    [up_ EXCEPT ![rank] = Append(@, pack_message(DATA, rank, dest, tag, dumps(obj)))]

\* MasterRouter.send: one DATA frame written to the socket of dest
MasterRouter_send(down_, dest, tag, obj) ==
    [down_ EXCEPT ![dest] = Append(@, pack_message(DATA, 0, dest, tag, dumps(obj)))]

\* MasterRouter.send_control: one CONTROL frame with an empty payload
MasterRouter_send_control(down_, dest, tag) ==
    [down_ EXCEPT ![dest] = Append(@, pack_message(CONTROL, 0, dest, tag, <<>>))]

\* variant of InboxPut: the queue is last-in first-out
InboxPut_lifo(q, msg) == <<msg>> \o q

\* the inbox.put of a receiving loop
InboxPut(q, msg) == Append(q, msg)

\* MasterRouter._route_loop, one frame of the connection of worker `rank`
RouteLoop(rank) ==
    /\ rank \in conns
    /\ routeAlive[rank]
    /\ up[rank] # <<>>
    /\ LET frame == Head(up[rank])
           h == unpack_header(frame)
       IN /\ up' = [up EXCEPT ![rank] = Tail(@)]
          /\ IF h.type = DATA /\ h.dest = 0
             THEN LET msg == Message(h.src, h.dest, h.tag, loads(frame.payload))
                  IN /\ inbox' = [inbox EXCEPT ![0] = InboxPut(@, msg)]
                     /\ arrived' = [arrived EXCEPT ![0] = Append(@, msg)]
                     /\ UNCHANGED <<down, routeAlive>>
             ELSE IF h.type = DATA /\ h.dest \in conns
             THEN /\ down' = [down EXCEPT ![h.dest] =
                                 Append(@, pack_message(DATA, h.src, h.dest, h.tag, frame.payload))]
                  /\ UNCHANGED <<inbox, arrived, routeAlive>>
             ELSE IF h.type = DATA
             THEN \* TransportError is not an OSError: the thread dies
                  /\ routeAlive' = [routeAlive EXCEPT ![rank] = FALSE]
                  /\ UNCHANGED <<inbox, arrived, down>>
             ELSE UNCHANGED <<inbox, arrived, down, routeAlive>>
    /\ UNCHANGED <<size, conns, cancel, rcv, returned>>
    /\ UNCHANGED appvars

\* variant of RecvLoop: a frame of any type is put in the inbox
RecvLoop_putall(rank) ==
    /\ rank \in Workers
    /\ wpc[rank] \in {"fn", "barrier"}
    /\ down[rank] # <<>>
    /\ LET frame == Head(down[rank])
           h == unpack_header(frame)
           msg == Message(h.src, h.dest, h.tag,
                          IF h.type = DATA THEN loads(frame.payload) ELSE None)
       IN /\ down' = [down EXCEPT ![rank] = Tail(@)]
          /\ inbox' = [inbox EXCEPT ![rank] = InboxPut(@, msg)]
          /\ arrived' = [arrived EXCEPT ![rank] = Append(@, msg)]
          /\ cancel' = [cancel EXCEPT ![rank] = @ \/ (h.type = CONTROL /\ h.tag = CANCEL_TAG)]
    /\ UNCHANGED <<size, conns, routeAlive, up, rcv, returned>>
    /\ UNCHANGED appvars

\* variant of RecvLoop: a DATA frame resets the cancel event
RecvLoop_reset(rank) ==
    /\ rank \in Workers
    /\ wpc[rank] \in {"fn", "barrier"}
    /\ down[rank] # <<>>
    /\ LET frame == Head(down[rank])
           h == unpack_header(frame)
       IN /\ down' = [down EXCEPT ![rank] = Tail(@)]
          /\ IF h.type = DATA
             THEN LET msg == Message(h.src, h.dest, h.tag, loads(frame.payload))
                  IN /\ inbox' = [inbox EXCEPT ![rank] = InboxPut(@, msg)]
                     /\ arrived' = [arrived EXCEPT ![rank] = Append(@, msg)]
                     /\ cancel' = [cancel EXCEPT ![rank] = FALSE]
             ELSE IF h.type = CONTROL /\ h.tag = CANCEL_TAG
             THEN /\ cancel' = [cancel EXCEPT ![rank] = TRUE]
                  /\ UNCHANGED <<inbox, arrived>>
             ELSE UNCHANGED <<inbox, arrived, cancel>>
    /\ UNCHANGED <<size, conns, routeAlive, up, rcv, returned>>
    /\ UNCHANGED appvars

\* WorkerTransport._recv_loop, one frame read by worker `rank`
RecvLoop(rank) ==
    /\ rank \in Workers
    /\ wpc[rank] \in {"fn", "barrier"}
    /\ down[rank] # <<>>
    /\ LET frame == Head(down[rank])
           h == unpack_header(frame)
       IN /\ down' = [down EXCEPT ![rank] = Tail(@)]
          /\ IF h.type = DATA
             THEN LET msg == Message(h.src, h.dest, h.tag, loads(frame.payload))
                  IN /\ inbox' = [inbox EXCEPT ![rank] = InboxPut(@, msg)]
                     /\ arrived' = [arrived EXCEPT ![rank] = Append(@, msg)]
                     /\ UNCHANGED cancel
             ELSE IF h.type = CONTROL /\ h.tag = CANCEL_TAG
             THEN /\ cancel' = [cancel EXCEPT ![rank] = TRUE]
                  /\ UNCHANGED <<inbox, arrived>>
             ELSE UNCHANGED <<inbox, arrived, cancel>>
    /\ UNCHANGED <<size, conns, routeAlive, up, rcv, returned>>
    /\ UNCHANGED appvars

\* variant of TagMatches: the tag filter is not applied
TagMatches_any(tag, msg) == tag = None \/ msg.tag = msg.tag

\* the tag test of WorkerTransport.recv / MasterRouter.recv
TagMatches(tag, msg) == tag = None \/ msg.tag = tag

\* the source test of Comm.recv
SourceMatches(source, msg) == ~(source # None /\ msg.src # source)

\* state of a rank's main thread with respect to Comm.recv
RcvIdle == [st |-> "idle", source |-> None, tag |-> None, timed |-> FALSE,
            held |-> NoMsg, result |-> None]

\* Comm.recv(source, tag, timeout) is called
Comm_recv_call(rank, source, tag, timed) ==
    rcv' = [rcv EXCEPT ![rank] = [st |-> "get", source |-> source, tag |-> tag,
                                  timed |-> timed, held |-> NoMsg, result |-> None]]

\* what Comm.recv does with a message the transport's recv returned:
\* return its payload, or call itself again without the message
Comm_recv_result(c, msg) ==
    IF SourceMatches(c.source, msg)
    THEN [RcvIdle EXCEPT !.st = "ret", !.result = msg.payload]
    ELSE [c EXCEPT !.st = "get"]

\* transport.recv: inbox.get returned a message
Transport_get(rank) ==
    /\ rcv[rank].st = "get"
    /\ inbox[rank] # <<>>
    /\ LET msg == Head(inbox[rank])
           c == rcv[rank]
       IN /\ inbox' = [inbox EXCEPT ![rank] = Tail(@)]
          /\ IF TagMatches(c.tag, msg)
             THEN /\ rcv' = [rcv EXCEPT ![rank] = Comm_recv_result(c, msg)]
                  /\ returned' = [returned EXCEPT ![rank] =
                        IF Comm_recv_result(c, msg).st = "ret"
                        THEN Append(@, [source |-> c.source, tag |-> c.tag, msg |-> msg])
                        ELSE @]
             ELSE /\ rcv' = [rcv EXCEPT ![rank] = [c EXCEPT !.st = "put", !.held = msg]]
                  /\ UNCHANGED returned
    /\ UNCHANGED <<size, conns, routeAlive, up, down, cancel, arrived>>
    /\ UNCHANGED appvars

\* transport.recv: the message that did not match is put back
Transport_put(rank) ==
    /\ rcv[rank].st = "put"
    /\ inbox' = [inbox EXCEPT ![rank] = InboxPut(@, rcv[rank].held)]
    /\ rcv' = [rcv EXCEPT ![rank] = [@ EXCEPT !.st = "get", !.held = NoMsg]]
    /\ UNCHANGED <<size, conns, routeAlive, up, down, cancel, arrived, returned>>
    /\ UNCHANGED appvars

\* transport.recv: inbox.get raised queue.Empty and the deadline has passed
Transport_timeout(rank) ==
    /\ rcv[rank].st = "get"
    /\ inbox[rank] = <<>>
    /\ rcv[rank].timed
    /\ rcv' = [rcv EXCEPT ![rank] = [RcvIdle EXCEPT !.st = "timeout"]]
    /\ UNCHANGED <<size, conns, routeAlive, up, down, inbox, cancel, arrived, returned>>
    /\ UNCHANGED appvars

\* Comm.send(obj, dest, tag) on rank `rank`
Comm_send(rank, obj, dest, tag) ==
    IF rank = 0
    THEN /\ dest \in conns
         /\ down' = MasterRouter_send(down, dest, tag, obj)
         /\ UNCHANGED up
    ELSE /\ up' = WorkerTransport_send(up, rank, dest, tag, obj)
         /\ UNCHANGED down

(* ------------------------------ MsgSpec ------------------------------- *)
NetInit ==
    /\ size = MaxSize
    /\ conns = Workers
    /\ routeAlive = [r \in Workers |-> TRUE]
    /\ up = [r \in Workers |-> <<>>]
    /\ down = [r \in Workers |-> <<>>]
    /\ inbox = [r \in Ranks |-> <<>>]
    /\ cancel = [r \in Ranks |-> FALSE]
    /\ rcv = [r \in Ranks |-> RcvIdle]
    /\ arrived = [r \in Ranks |-> <<>>]
    /\ returned = [r \in Ranks |-> <<>>]

\* the variables of the specifications that are not running
WireIdle == wire = [st |-> "none"]

WriteIdle == wr = <<>>

AcceptIdle == acc = [pc |-> "off"]

ExtIdle ==
    /\ WireIdle
    /\ WriteIdle
    /\ AcceptIdle

MsgIdle ==
    /\ rx = 0
    /\ sentLog = [r \in Ranks |-> <<>>]
    /\ nrecv = 0
    /\ filterMix = "none"
    /\ ExtIdle

CollIdle ==
    /\ root = 0
    /\ vals = [r \in Ranks |-> None]
    /\ gpc = [r \in Ranks |-> "off"]
    /\ results = [r \in Ranks |-> <<>>]
    /\ gidx = [r \in Ranks |-> 0]
    /\ plan = <<>>
    /\ calls = [r \in Ranks |-> 0]
    /\ rets = [r \in Ranks |-> <<>>]
    /\ llog = <<>>

Threads == {"t1", "t2"}

NoConfig == [set |-> FALSE, hosts |-> FALSE, workers |-> 0]

JobIdle ==
    /\ CONFIG = NoConfig
    /\ JOB_ACTIVE = FALSE
    /\ JOB_LOCK = "free"
    /\ COMM_WORLD = "None"
    /\ pc = [t \in Threads |-> "idle"]
    /\ cfg = [t \in Threads |-> NoConfig]
    /\ fnOutcome = [t \in Threads |-> "none"]
    /\ bidx = 0
    /\ fnSync = FALSE
    /\ wpc = [r \in Workers |-> "fn"]
    /\ cpc = "idle"
    /\ ncancel = 0
    /\ cout = "none"
    /\ covl = FALSE
    /\ outcome = [t \in Threads |-> "none"]
    /\ tdown = [t \in Threads |-> {}]
    /\ fresh = [t \in Threads |-> FALSE]
    /\ lastEnd = "none"

MsgInit ==
    /\ NetInit
    /\ CollIdle
    /\ JobIdle
    /\ rx \in {0, MaxSize - 1}
    /\ sentLog = [r \in Ranks |-> <<>>]
    /\ nrecv = 0
    /\ filterMix = "none"
    /\ ExtIdle

\* number of messages sent so far by the ranks below n
RECURSIVE NumSent(_)
NumSent(n) == IF n = 0 THEN 0 ELSE Len(sentLog[n - 1]) + NumSent(n - 1)

\* a rank other than rx sends its next message to rx; the object sent
\* names the sender and the position in its sequence of sends
App_Send(rank, tag) ==
    /\ rank \in Ranks \ {rx}
    /\ NumSent(MaxSize) < MaxMsgs
    /\ LET obj == 10 * rank + Len(sentLog[rank]) + 1
       IN /\ Comm_send(rank, obj, rx, tag)
          /\ sentLog' = [sentLog EXCEPT ![rank] = Append(@, Message(rank, rx, tag, obj))]
    /\ UNCHANGED <<size, conns, routeAlive, inbox, cancel, rcv, arrived, returned, rx, nrecv,
                   filterMix>>
    /\ UNCHANGED <<extvars, collvars, jobvars>>

\* the kind of filter of one recv call
FilterKind(source, tag) ==
    IF source # None THEN "source"
    ELSE IF tag = None THEN "unfiltered"
    ELSE IF tag = TagA THEN "tagA"
    ELSE "tags"

\* the kinds of filter used so far, after one more call
MixWith(mix, source, tag) ==
    LET k == FilterKind(source, tag)
    IN IF mix = "none" \/ mix = k THEN k
       ELSE IF mix = "source" \/ k = "source" THEN "source"
       ELSE "tags"

\* rx calls recv with some filter, its previous call (if any) being over
App_Recv(source, tag, timed) ==
    /\ rcv[rx].st \in {"idle", "ret", "timeout"}
    /\ nrecv < MaxRecvs
    /\ Comm_recv_call(rx, source, tag, timed)
    /\ nrecv' = nrecv + 1
    /\ filterMix' = MixWith(filterMix, source, tag)
    /\ UNCHANGED <<size, conns, routeAlive, up, down, inbox, cancel, arrived, returned,
                   rx, sentLog>>
    /\ UNCHANGED <<extvars, collvars, jobvars>>

MsgNext ==
    \/ \E r \in Ranks, tag \in {TagA, TagB} : App_Send(r, tag)
    \/ \E source \in (Ranks \ {rx}) \cup {None}, tag \in {TagA, TagB, None}, timed \in BOOLEAN :
          App_Recv(source, tag, timed)
    \/ \E r \in Workers : RouteLoop(r)
    \/ \E r \in Workers : RecvLoop(r)
    \/ \E r \in Ranks : Transport_get(r)
    \/ \E r \in Ranks : Transport_put(r)
    \/ \E r \in Ranks : Transport_timeout(r)

MsgSpec == MsgInit /\ [][MsgNext]_vars

(* ------------------------------ CollSpec ------------------------------ *)
\* the values a rank may pass to a collective
Values == {7, 8}

\* list[i] of a Python list kept as a sequence
At(list, i) == list[i + 1]

\* list[i] = v
SetAt(list, i, v) == [list EXCEPT ![i + 1] = v]

\* the loop `for r in range(1, self.size)` of Comm.gather on root
GatherRange == 1..(size - 1)

\* Comm.gather(value, root) is called on `rank`: root seeds its slot and
\* starts to receive, any other rank sends its value and returns None
Gather_call(rank) ==
    /\ rank < size
    /\ gpc[rank] = "call"
    /\ IF rank = root
       THEN /\ results' = [results EXCEPT ![rank] =
                              SetAt([i \in 1..size |-> None], root, vals[rank])]
            /\ gidx' = [gidx EXCEPT ![rank] = 1]
            /\ gpc' = [gpc EXCEPT ![rank] = "recv"]
            /\ Comm_recv_call(rank, 1, TAG_GATHER, FALSE)
            /\ UNCHANGED <<up, down>>
       ELSE /\ Comm_send(rank, vals[rank], root, TAG_GATHER)
            /\ gpc' = [gpc EXCEPT ![rank] = "done"]
            /\ UNCHANGED <<results, gidx, rcv>>
    /\ UNCHANGED <<size, conns, routeAlive, inbox, cancel, arrived, returned, root, vals,
                   plan, calls, rets, llog>>
    /\ UNCHANGED <<msgvars, jobvars>>

\* Comm.gather on root: recv(source=r, tag=GATHER) returned, the payload
\* goes to results[r] and the loop goes on or the list is returned
Gather_store(rank) ==
    /\ gpc[rank] = "recv"
    /\ rcv[rank].st = "ret"
    /\ results' = [results EXCEPT ![rank] = SetAt(@, gidx[rank], rcv[rank].result)]
    /\ IF gidx[rank] + 1 \in GatherRange
       THEN /\ gidx' = [gidx EXCEPT ![rank] = @ + 1]
            /\ Comm_recv_call(rank, gidx[rank] + 1, TAG_GATHER, FALSE)
            /\ UNCHANGED gpc
       ELSE /\ gpc' = [gpc EXCEPT ![rank] = "done"]
            /\ rcv' = [rcv EXCEPT ![rank] = RcvIdle]
            /\ UNCHANGED gidx
    /\ UNCHANGED <<size, conns, routeAlive, up, down, inbox, cancel, arrived, returned,
                   root, vals, plan, calls, rets, llog>>
    /\ UNCHANGED <<msgvars, jobvars>>

\* a job of 2..MaxSize ranks, all workers connected, every rank about to
\* call gather(vals[rank], root)
CollInit ==
    /\ size \in 2..MaxSize
    /\ conns = 1..(size - 1)
    /\ routeAlive = [r \in Workers |-> TRUE]
    /\ up = [r \in Workers |-> <<>>]
    /\ down = [r \in Workers |-> <<>>]
    /\ inbox = [r \in Ranks |-> <<>>]
    /\ cancel = [r \in Ranks |-> FALSE]
    /\ rcv = [r \in Ranks |-> RcvIdle]
    /\ arrived = [r \in Ranks |-> <<>>]
    /\ returned = [r \in Ranks |-> <<>>]
    /\ MsgIdle
    /\ JobIdle
    /\ root \in 0..(size - 1)
    /\ vals \in {v \in [Ranks -> Values \cup {None}] :
                    \A r \in Ranks : (v[r] = None) <=> (r >= size)}
    /\ gpc = [r \in Ranks |-> IF r < size THEN "call" ELSE "off"]
    /\ results = [r \in Ranks |-> <<>>]
    /\ gidx = [r \in Ranks |-> 0]
    /\ plan = <<>>
    /\ calls = [r \in Ranks |-> 0]
    /\ rets = [r \in Ranks |-> <<>>]
    /\ llog = <<>>

\* every message of a gather carries tag GATHER and the recv calls have no
\* timeout, so the put-back and timeout steps of recv cannot occur here
CollNext ==
    \/ \E r \in Ranks : Gather_call(r)
    \/ \E r \in Ranks : Gather_store(r)
    \/ \E r \in Workers : RouteLoop(r)
    \/ \E r \in Workers : RecvLoop(r)
    \/ \E r \in Ranks : Transport_get(r)

CollSpec == CollInit /\ [][CollNext]_vars

(* ----------------------- properties of CollSpec ----------------------- *)
\* the list [v_0, ..., v_{size-1}]
FullList == [i \in 1..size |-> vals[i - 1]]

\* every frame written for `rank` has been read and enqueued
NothingInFlightTo(rank) ==
    /\ \A w \in Workers : \A i \in 1..Len(up[w]) : up[w][i].dest # rank
    /\ rank \in Workers => down[rank] = <<>>

\* the recv call of `rank` waits on an empty inbox and no message will come:
\* every other rank has returned from gather and nothing is in flight
GatherBlocked(rank) ==
    /\ gpc[rank] = "recv"
    /\ rcv[rank].st = "get"
    /\ inbox[rank] = <<>>
    /\ NothingInFlightTo(rank)
    /\ \A r \in 0..(size - 1) : r # rank => gpc[r] = "done"

\* C9: when every rank calls gather(v_r, root=0), the call on rank 0 returns
\* [v_0, ..., v_{size-1}] whatever the arrival order of the GATHER messages:
\* rank 0 is never left waiting with every message sent and consumed, and
\* the list it returns has v_r at position r.
C9_GatherRoot0 ==
    (root = 0) =>
        /\ ~GatherBlocked(0)
        /\ gpc[0] = "done" => results[0] = FullList

\* C10: for every root, gather returns the full list on root (None on every
\* other rank) and every rank's call terminates: no rank is left waiting for
\* a message that cannot come.
C10_GatherAnyRoot ==
    \A rank \in 0..(size - 1) :
        /\ ~GatherBlocked(rank)
        /\ (gpc[rank] = "done" /\ rank = root) => results[rank] = FullList
        /\ (gpc[rank] = "done" /\ rank # root) => results[rank] = <<>>

(* ------------------------ properties of MsgSpec ----------------------- *)
IsPrefix(s, t) == Len(s) <= Len(t) /\ \A i \in 1..Len(s) : s[i] = t[i]

Range(s) == {s[i] : i \in 1..Len(s)}

FromSrc(s, src) == SelectSeq(s, LAMBDA m : m.src = src)

WithTag(s, tag) == SelectSeq(s, LAMBDA m : m.tag = tag)

\* the messages Comm.send was called with by src for dest, in call order
SentTo(src, dest) == SelectSeq(sentLog[src], LAMBDA m : m.dest = dest)

\* the messages the recv calls of a rank returned, in return order
RetMsgs(rank) == [i \in 1..Len(returned[rank]) |-> returned[rank][i].msg]


\* C5: for every ordered pair (src, dest) the messages of src are put in the
\* inbox of dest in the order src sent them, two-hop worker-to-worker
\* traffic included, and a receiver that has only called recv without a
\* filter has been handed them in send order.
C5_FifoPerPair ==
    \A src \in Ranks, dest \in Ranks :
        /\ IsPrefix(FromSrc(arrived[dest], src), SentTo(src, dest))
        /\ (dest = rx /\ filterMix \in {"none", "unfiltered"})
              => /\ IsPrefix(FromSrc(RetMsgs(dest), src), SentTo(src, dest))
                 /\ IsPrefix(RetMsgs(dest), arrived[dest])

\* two messages of one worker were routed through the master to another
\* worker, which received both without a filter
C5_Witness ==
    /\ rx # 0
    /\ filterMix = "unfiltered"
    /\ \E src \in Workers : Len(FromSrc(RetMsgs(rx), src)) >= 2

\* C6: a receiver that only calls recv(tag=A) is handed A messages only, in
\* the order they were sent (per sender) and arrived, and once everything
\* sent has arrived and no A message is queued it has been handed all of them.
C6_TagFilter ==
    (filterMix \in {"none", "tagA"}) =>
        /\ \A i \in 1..Len(returned[rx]) : returned[rx][i].msg.tag = TagA
        /\ IsPrefix(RetMsgs(rx), WithTag(arrived[rx], TagA))
        /\ \A src \in Ranks :
              IsPrefix(FromSrc(RetMsgs(rx), src), WithTag(SentTo(src, rx), TagA))
        /\ (/\ Len(arrived[rx]) = NumSent(MaxSize)
            /\ rcv[rx].st # "put"
            /\ WithTag(inbox[rx], TagA) = <<>>)
              => RetMsgs(rx) = WithTag(arrived[rx], TagA)

\* one sender's A, B, A arrived in that order and two recv(tag=A) calls
\* returned the two A messages
C6_Witness ==
    /\ filterMix = "tagA"
    /\ Len(returned[rx]) = 2
    /\ \E src \in Ranks :
          /\ Len(FromSrc(arrived[rx], src)) = 3
          /\ FromSrc(arrived[rx], src)[1].tag = TagA
          /\ FromSrc(arrived[rx], src)[2].tag = TagB
          /\ FromSrc(arrived[rx], src)[3].tag = TagA

\* C7: with any mix of tag filters (no source filter), the messages
\* returned for each tag come out in the order in which the messages of
\* that tag arrived: a message is returned only after every message of its
\* tag that arrived before it.
C7_PerTagArrivalOrder ==
    (filterMix # "source") =>
        \A tag \in {TagA, TagB} :
            IsPrefix(WithTag(RetMsgs(rx), tag), WithTag(arrived[rx], tag))

\* C8: a recv call takes out of the inbox no message but the one it returns:
\* every message that arrived and was not returned by a recv is in the inbox,
\* or held by the running call until it is put back.
C8_SkippedStayQueued ==
    \A rank \in Ranks : \A m \in Range(arrived[rank]) :
        \/ m \in Range(inbox[rank])
        \/ m = rcv[rank].held
        \/ m \in Range(RetMsgs(rank))

(* ------------------------------- JobSpec ------------------------------ *)
\* the numbers of worker ranks (num_worker_nodes * per_node_cores) a
\* configuration may ask for
WorkerCounts == {1}

\* the sentinel True that Comm.barrier sends
True == 1

\* how a run call that reached teardown ends, given how fn ended
EndOf(how) ==
    CASE how = "return" -> "returned"
      [] how = "raise" -> "raised"
      [] how = "cancelled" -> "JobCancelled"

\* run fails with an error before fn was invoked
RunFails(t, err) ==
    /\ pc' = [pc EXCEPT ![t] = "idle"]
    /\ outcome' = [outcome EXCEPT ![t] = err]
    /\ lastEnd' = err

\* configure_infra: a configuration is validated and stored; a list of
\* hosts is not required when num_worker_nodes is given
Configure(hosts, n) ==
    /\ CONFIG' = [set |-> TRUE, hosts |-> hosts, workers |-> n]
    /\ UNCHANGED <<size, conns, routeAlive, up, down, inbox, cancel, rcv, arrived,
                   returned, JOB_ACTIVE, JOB_LOCK, COMM_WORLD, pc, cfg, fnOutcome,
                   bidx, fnSync, wpc, cpc, ncancel, cout, covl, outcome, tdown, fresh,
                   lastEnd>>
    /\ UNCHANGED <<msgvars, collvars>>

\* run, first statements: cfg = get_config(), ConfigError when there is none
\* (the master has no MPI_RANK in its environment)
Run_get_config(t) ==
    /\ pc[t] = "idle"
    /\ cfg' = [cfg EXCEPT ![t] = CONFIG]
    /\ fnOutcome' = [fnOutcome EXCEPT ![t] = "none"]
    /\ tdown' = [tdown EXCEPT ![t] = {}]
    /\ fresh' = [u \in Threads |->
                   IF u = t THEN lastEnd = "returned" /\ \A v \in Threads \ {t} : pc[v] = "idle"
                   ELSE IF pc[u] = "idle" THEN fresh[u] ELSE FALSE]
    /\ IF CONFIG.set
       THEN /\ pc' = [pc EXCEPT ![t] = "lock"]
            /\ outcome' = [outcome EXCEPT ![t] = "running"]
            /\ UNCHANGED lastEnd
       ELSE RunFails(t, "ConfigError")
    /\ UNCHANGED <<size, conns, routeAlive, up, down, inbox, cancel, rcv, arrived,
                   returned, CONFIG, JOB_ACTIVE, JOB_LOCK, COMM_WORLD, bidx, fnSync,
                   wpc, cpc, ncancel, cout, covl>>
    /\ UNCHANGED <<msgvars, collvars>>

\* run: `with _JOB_LOCK:` is entered
Run_acquire(t) ==
    /\ pc[t] = "lock"
    /\ JOB_LOCK = "free"
    /\ JOB_LOCK' = t
    /\ pc' = [pc EXCEPT ![t] = "check"]
    /\ UNCHANGED <<size, conns, routeAlive, up, down, inbox, cancel, rcv, arrived,
                   returned, CONFIG, JOB_ACTIVE, COMM_WORLD, cfg, fnOutcome, bidx,
                   fnSync, wpc, cpc, ncancel, cout, covl, outcome, tdown, fresh, lastEnd>>
    /\ UNCHANGED <<msgvars, collvars>>

\* variant of Run_check: the active flag is not tested
Run_check_admit(t) ==
    /\ pc[t] = "check"
    /\ pc' = [pc EXCEPT ![t] = "set"]
    /\ UNCHANGED <<size, conns, routeAlive, up, down, inbox, cancel, rcv, arrived,
                   returned, CONFIG, JOB_ACTIVE, JOB_LOCK, COMM_WORLD, cfg, fnOutcome,
                   bidx, fnSync, wpc, cpc, ncancel, cout, covl, outcome, tdown, fresh,
                   lastEnd>>
    /\ UNCHANGED <<msgvars, collvars>>

\* run: `if _JOB_ACTIVE: raise JobStateError`, which leaves the with block
Run_check(t) ==
    /\ pc[t] = "check"
    /\ IF JOB_ACTIVE
       THEN /\ JOB_LOCK' = "free"
            /\ RunFails(t, "JobStateError")
       ELSE /\ pc' = [pc EXCEPT ![t] = "set"]
            /\ UNCHANGED <<JOB_LOCK, outcome, lastEnd>>
    /\ UNCHANGED <<size, conns, routeAlive, up, down, inbox, cancel, rcv, arrived,
                   returned, CONFIG, JOB_ACTIVE, COMM_WORLD, cfg, fnOutcome, bidx,
                   fnSync, wpc, cpc, ncancel, cout, covl, tdown, fresh>>
    /\ UNCHANGED <<msgvars, collvars>>

\* run: `_JOB_ACTIVE = True`
Run_set_active(t) ==
    /\ pc[t] = "set"
    /\ JOB_ACTIVE' = TRUE
    /\ pc' = [pc EXCEPT ![t] = "clear"]
    /\ UNCHANGED <<size, conns, routeAlive, up, down, inbox, cancel, rcv, arrived,
                   returned, CONFIG, JOB_LOCK, COMM_WORLD, cfg, fnOutcome, bidx,
                   fnSync, wpc, cpc, ncancel, cout, covl, outcome, tdown, fresh, lastEnd>>
    /\ UNCHANGED <<msgvars, collvars>>

\* run: `_CANCEL_EVENT.clear()` and the end of the with block
Run_clear_cancel(t) ==
    /\ pc[t] = "clear"
    /\ cancel' = [cancel EXCEPT ![0] = FALSE]
    /\ JOB_LOCK' = "free"
    /\ pc' = [pc EXCEPT ![t] = "launch"]
    /\ UNCHANGED <<size, conns, routeAlive, up, down, inbox, rcv, arrived, returned,
                   CONFIG, JOB_ACTIVE, COMM_WORLD, cfg, fnOutcome, bidx, fnSync, wpc,
                   cpc, ncancel, cout, covl, outcome, tdown, fresh, lastEnd>>
    /\ UNCHANGED <<msgvars, collvars>>

\* init_master: a new MasterRouter is built, then launch_workers raises
\* LaunchError without hosts, or starts one process per worker rank, each
\* with a new socket, inbox and cancel event
Run_launch(t, sync) ==
    /\ pc[t] = "launch"
    /\ conns' = {}
    /\ routeAlive' = [r \in Workers |-> FALSE]
    /\ arrived' = [r \in Ranks |-> <<>>]
    /\ returned' = [r \in Ranks |-> <<>>]
    /\ IF ~cfg[t].hosts
       THEN /\ RunFails(t, "LaunchError")
            /\ inbox' = [inbox EXCEPT ![0] = <<>>]
            /\ rcv' = [rcv EXCEPT ![0] = RcvIdle]
            /\ UNCHANGED <<size, up, down, cancel, wpc, fnSync, ncancel>>
       ELSE /\ pc' = [pc EXCEPT ![t] = "accept"]
            /\ size' = cfg[t].workers + 1
            /\ wpc' = [r \in Workers |-> IF r <= cfg[t].workers THEN "spawned" ELSE "off"]
            /\ up' = [r \in Workers |-> <<>>]
            /\ down' = [r \in Workers |-> <<>>]
            /\ inbox' = [r \in Ranks |-> <<>>]
            /\ rcv' = [r \in Ranks |-> RcvIdle]
            /\ cancel' = [r \in Ranks |-> IF r = 0 THEN cancel[0] ELSE FALSE]
            /\ fnSync' = sync
            /\ ncancel' = 0
            /\ UNCHANGED <<outcome, lastEnd>>
    /\ UNCHANGED <<CONFIG, JOB_ACTIVE, JOB_LOCK, COMM_WORLD, cfg, fnOutcome, bidx, cpc,
                   cout, covl, tdown, fresh>>
    /\ UNCHANGED <<msgvars, collvars>>

\* worker_main: init() connects to the master and sends the hello frame
Worker_init(rank) ==
    /\ rank \in Workers
    /\ wpc[rank] = "spawned"
    /\ up' = [up EXCEPT ![rank] =
                 Append(@, pack_message(CONTROL, rank, 0, HELLO_TAG, dumps([rank |-> rank])))]
    /\ wpc' = [wpc EXCEPT ![rank] = "fn"]
    /\ UNCHANGED <<size, conns, routeAlive, down, inbox, cancel, rcv, arrived,
                   returned, CONFIG, JOB_ACTIVE, JOB_LOCK, COMM_WORLD, pc, cfg,
                   fnOutcome, bidx, fnSync, cpc, ncancel, cout, covl, outcome, tdown, fresh,
                   lastEnd>>
    /\ UNCHANGED <<msgvars, collvars>>

\* worker_main: fn runs and returns; when fn ends with comm.barrier() the
\* worker sends its sentinel to rank 0 and waits for the one of rank 0
Worker_fn(rank) ==
    /\ rank \in Workers
    /\ wpc[rank] = "fn"
    /\ IF fnSync
       THEN /\ Comm_send(rank, True, 0, TAG_BARRIER)
            /\ Comm_recv_call(rank, 0, TAG_BARRIER, FALSE)
            /\ wpc' = [wpc EXCEPT ![rank] = "barrier"]
       ELSE /\ wpc' = [wpc EXCEPT ![rank] = "ended"]
            /\ UNCHANGED <<up, down, rcv>>
    /\ UNCHANGED <<size, conns, routeAlive, inbox, cancel, arrived, returned, CONFIG,
                   JOB_ACTIVE, JOB_LOCK, COMM_WORLD, pc, cfg, fnOutcome, bidx, fnSync,
                   cpc, ncancel, cout, covl, outcome, tdown, fresh, lastEnd>>
    /\ UNCHANGED <<msgvars, collvars>>

\* worker: the recv of Comm.barrier returned, fn returns, the process ends
Worker_end(rank) ==
    /\ rank \in Workers
    /\ wpc[rank] = "barrier"
    /\ rcv[rank].st = "ret"
    /\ rcv' = [rcv EXCEPT ![rank] = RcvIdle]
    /\ wpc' = [wpc EXCEPT ![rank] = "ended"]
    /\ UNCHANGED <<size, conns, routeAlive, up, down, inbox, cancel, arrived, returned,
                   CONFIG, JOB_ACTIVE, JOB_LOCK, COMM_WORLD, pc, cfg, fnOutcome, bidx,
                   fnSync, cpc, ncancel, cout, covl, outcome, tdown, fresh, lastEnd>>
    /\ UNCHANGED <<msgvars, collvars>>

\* accept_all, one iteration: a connection is accepted, _handshake reads
\* its first frame, the socket is stored under the hello rank and its route
\* loop is started
Run_accept(t, client) ==
    /\ pc[t] = "accept"
    /\ client \in Workers
    /\ wpc[client] \notin {"off", "spawned"}
    /\ client \notin conns
    /\ up[client] # <<>>
    /\ LET frame == Head(up[client])
           h == unpack_header(frame)
           rank == loads(frame.payload).rank
       IN /\ up' = [up EXCEPT ![client] = Tail(@)]
          /\ IF h.type # CONTROL \/ h.tag # HELLO_TAG \/ rank \in conns
             THEN /\ RunFails(t, "TransportError")
                  /\ UNCHANGED <<conns, routeAlive>>
             ELSE /\ conns' = conns \cup {rank}
                  /\ routeAlive' = [routeAlive EXCEPT ![rank] = TRUE]
                  /\ pc' = [pc EXCEPT ![t] =
                              IF Cardinality(conns') < cfg[t].workers THEN "accept" ELSE "install"]
                  /\ UNCHANGED <<outcome, lastEnd>>
    /\ UNCHANGED <<size, down, inbox, cancel, rcv, arrived, returned, CONFIG,
                   JOB_ACTIVE, JOB_LOCK, COMM_WORLD, cfg, fnOutcome, bidx, fnSync, wpc,
                   cpc, ncancel, cout, covl, tdown, fresh>>
    /\ UNCHANGED <<msgvars, collvars>>

\* accept_all: server.accept() timed out, TransportError
Run_accept_timeout(t) ==
    /\ pc[t] = "accept"
    /\ \A r \in Workers : wpc[r] \in {"off", "spawned"} \/ r \in conns
    /\ RunFails(t, "TransportError")
    /\ UNCHANGED <<size, conns, routeAlive, up, down, inbox, cancel, rcv, arrived,
                   returned, CONFIG, JOB_ACTIVE, JOB_LOCK, COMM_WORLD, cfg, fnOutcome,
                   bidx, fnSync, wpc, cpc, ncancel, cout, covl, tdown, fresh>>
    /\ UNCHANGED <<msgvars, collvars>>

\* init_master: `COMM_WORLD = comm`
Run_install(t) ==
    /\ pc[t] = "install"
    /\ COMM_WORLD' = "Comm"
    /\ pc' = [pc EXCEPT ![t] = "fn"]
    /\ UNCHANGED <<size, conns, routeAlive, up, down, inbox, cancel, rcv, arrived,
                   returned, CONFIG, JOB_ACTIVE, JOB_LOCK, cfg, fnOutcome, bidx,
                   fnSync, wpc, cpc, ncancel, cout, covl, outcome, tdown, fresh, lastEnd>>
    /\ UNCHANGED <<msgvars, collvars>>

\* variant of Run_fn: the teardown is not in a finally block
Run_fn_nofinally(t, how) ==
    /\ pc[t] = "fn"
    /\ how = "cancelled" => cancel[0]
    /\ fnOutcome' = [fnOutcome EXCEPT ![t] = how]
    /\ covl' = (covl \/ cpc # "idle")
    /\ IF how = "return"
       THEN /\ bidx' = 1
            /\ Comm_recv_call(0, 1, TAG_BARRIER, FALSE)
            /\ pc' = [pc EXCEPT ![t] = "barrier_recv"]
            /\ UNCHANGED <<outcome, lastEnd>>
       ELSE /\ RunFails(t, EndOf(how))
            /\ UNCHANGED <<bidx, rcv>>
    /\ UNCHANGED <<size, conns, routeAlive, up, down, inbox, cancel, arrived, returned,
                   CONFIG, JOB_ACTIVE, JOB_LOCK, COMM_WORLD, cfg, fnSync, wpc, cpc,
                   ncancel, cout, tdown, fresh>>
    /\ UNCHANGED <<msgvars, collvars>>

\* run: fn(*args, **kwargs) returns or raises (JobCancelled when the cancel
\* event is set), and the finally block begins with comm.barrier(): rank 0
\* calls recv(source=1, tag=BARRIER)
Run_fn(t, how) ==
    /\ pc[t] = "fn"
    /\ how = "cancelled" => cancel[0]
    /\ fnOutcome' = [fnOutcome EXCEPT ![t] = how]
    /\ covl' = (covl \/ cpc # "idle")
    /\ bidx' = 1
    /\ Comm_recv_call(0, 1, TAG_BARRIER, FALSE)
    /\ pc' = [pc EXCEPT ![t] = "barrier_recv"]
    /\ UNCHANGED <<outcome, lastEnd>>
    /\ UNCHANGED <<size, conns, routeAlive, up, down, inbox, cancel, arrived, returned,
                   CONFIG, JOB_ACTIVE, JOB_LOCK, COMM_WORLD, cfg, fnSync, wpc, cpc,
                   ncancel, cout, tdown, fresh>>
    /\ UNCHANGED <<msgvars, collvars>>

\* Comm.barrier on rank 0: recv(source=r, tag=BARRIER) returned; the next
\* rank is received from, or the second loop begins
Run_barrier_store(t) ==
    /\ pc[t] = "barrier_recv"
    /\ rcv[0].st = "ret"
    /\ IF bidx + 1 < size
       THEN /\ bidx' = bidx + 1
            /\ Comm_recv_call(0, bidx + 1, TAG_BARRIER, FALSE)
            /\ UNCHANGED pc
       ELSE /\ bidx' = 1
            /\ rcv' = [rcv EXCEPT ![0] = RcvIdle]
            /\ pc' = [pc EXCEPT ![t] = "barrier_send"]
    /\ UNCHANGED <<size, conns, routeAlive, up, down, inbox, cancel, arrived, returned,
                   CONFIG, JOB_ACTIVE, JOB_LOCK, COMM_WORLD, cfg, fnOutcome, fnSync,
                   wpc, cpc, ncancel, cout, covl, outcome, tdown, fresh, lastEnd>>
    /\ UNCHANGED <<msgvars, collvars>>

\* Comm.barrier on rank 0: send(True, dest=r, tag=BARRIER)
Run_barrier_send(t) ==
    /\ pc[t] = "barrier_send"
    /\ Comm_send(0, True, bidx, TAG_BARRIER)
    /\ IF bidx + 1 < size
       THEN /\ bidx' = bidx + 1
            /\ UNCHANGED pc
       ELSE /\ bidx' = 0
            /\ pc' = [pc EXCEPT ![t] = "detach"]
    /\ UNCHANGED <<size, conns, routeAlive, inbox, cancel, rcv, arrived, returned,
                   CONFIG, JOB_ACTIVE, JOB_LOCK, COMM_WORLD, cfg, fnOutcome, fnSync,
                   wpc, cpc, ncancel, cout, covl, outcome, tdown, fresh, lastEnd>>
    /\ UNCHANGED <<msgvars, collvars>>

\* run, finally: `COMM_WORLD = None`
Run_detach(t) ==
    /\ pc[t] = "detach"
    /\ COMM_WORLD' = "None"
    /\ tdown' = [tdown EXCEPT ![t] = @ \cup {"detach"}]
    /\ pc' = [pc EXCEPT ![t] = "clear_config"]
    /\ UNCHANGED <<size, conns, routeAlive, up, down, inbox, cancel, rcv, arrived,
                   returned, CONFIG, JOB_ACTIVE, JOB_LOCK, cfg, fnOutcome, bidx,
                   fnSync, wpc, cpc, ncancel, cout, covl, outcome, fresh, lastEnd>>
    /\ UNCHANGED <<msgvars, collvars>>

\* run, finally: clear_config()
Run_clear_config(t) ==
    /\ pc[t] = "clear_config"
    /\ CONFIG' = NoConfig
    /\ tdown' = [tdown EXCEPT ![t] = @ \cup {"clear_config"}]
    /\ pc' = [pc EXCEPT ![t] = "clear_event"]
    /\ UNCHANGED <<size, conns, routeAlive, up, down, inbox, cancel, rcv, arrived,
                   returned, JOB_ACTIVE, JOB_LOCK, COMM_WORLD, cfg, fnOutcome, bidx,
                   fnSync, wpc, cpc, ncancel, cout, covl, outcome, fresh, lastEnd>>
    /\ UNCHANGED <<msgvars, collvars>>

\* run, finally: `_CANCEL_EVENT.clear()`
Run_clear_event(t) ==
    /\ pc[t] = "clear_event"
    /\ cancel' = [cancel EXCEPT ![0] = FALSE]
    /\ tdown' = [tdown EXCEPT ![t] = @ \cup {"clear_event"}]
    /\ pc' = [pc EXCEPT ![t] = "unlock"]
    /\ UNCHANGED <<size, conns, routeAlive, up, down, inbox, rcv, arrived, returned,
                   CONFIG, JOB_ACTIVE, JOB_LOCK, COMM_WORLD, cfg, fnOutcome, bidx,
                   fnSync, wpc, cpc, ncancel, cout, covl, outcome, fresh, lastEnd>>
    /\ UNCHANGED <<msgvars, collvars>>

\* run, finally: `with _JOB_LOCK: _JOB_ACTIVE = False`, then run returns
\* the result or the error of fn propagates
Run_unlock(t) ==
    /\ pc[t] = "unlock"
    /\ JOB_LOCK = "free"
    /\ JOB_ACTIVE' = FALSE
    /\ tdown' = [tdown EXCEPT ![t] = @ \cup {"inactive"}]
    /\ RunFails(t, EndOf(fnOutcome[t]))
    /\ UNCHANGED <<size, conns, routeAlive, up, down, inbox, cancel, rcv, arrived,
                   returned, CONFIG, JOB_LOCK, COMM_WORLD, cfg, fnOutcome, bidx,
                   fnSync, wpc, cpc, ncancel, cout, covl, fresh>>
    /\ UNCHANGED <<msgvars, collvars>>

\* variant of Cancel_check: the call goes on without the test
Cancel_check_pass ==
    /\ cpc = "idle"
    /\ ncancel < MaxCancels
    /\ cout' = "running"
    /\ cpc' = "set"
    /\ covl' = ~(\E t \in Threads : pc[t] = "fn")
    /\ UNCHANGED <<size, conns, routeAlive, up, down, inbox, cancel, rcv, arrived,
                   returned, CONFIG, JOB_ACTIVE, JOB_LOCK, COMM_WORLD, pc, cfg,
                   fnOutcome, bidx, fnSync, wpc, ncancel, outcome, tdown, fresh,
                   lastEnd>>
    /\ UNCHANGED <<msgvars, collvars>>

\* cancel_job: `if COMM_WORLD is None or not _JOB_ACTIVE: raise JobStateError`
Cancel_check ==
    /\ cpc = "idle"
    /\ ncancel < MaxCancels
    /\ IF COMM_WORLD = "None" \/ ~JOB_ACTIVE
       THEN /\ cout' = "JobStateError"
            /\ UNCHANGED cpc
       ELSE /\ cout' = "running"
            /\ cpc' = "set"
    /\ covl' = ~(\E t \in Threads : pc[t] = "fn")
    /\ UNCHANGED <<size, conns, routeAlive, up, down, inbox, cancel, rcv, arrived,
                   returned, CONFIG, JOB_ACTIVE, JOB_LOCK, COMM_WORLD, pc, cfg,
                   fnOutcome, bidx, fnSync, wpc, ncancel, outcome, tdown, fresh,
                   lastEnd>>
    /\ UNCHANGED <<msgvars, collvars>>

\* cancel_job: `_CANCEL_EVENT.set()`
Cancel_set ==
    /\ cpc = "set"
    /\ cancel' = [cancel EXCEPT ![0] = TRUE]
    /\ cpc' = "send"
    /\ UNCHANGED <<size, conns, routeAlive, up, down, inbox, rcv, arrived, returned,
                   CONFIG, JOB_ACTIVE, JOB_LOCK, COMM_WORLD, pc, cfg, fnOutcome, bidx,
                   fnSync, wpc, ncancel, cout, covl, outcome, tdown, fresh, lastEnd>>
    /\ UNCHANGED <<msgvars, collvars>>

\* variant of Cancel_send: only rank 1 is sent the frame
Cancel_send_first ==
    /\ cpc = "send"
    /\ cpc' = "idle"
    /\ UNCHANGED covl
    /\ IF COMM_WORLD = "None"
       THEN /\ cout' = "AttributeError"
            /\ UNCHANGED <<down, ncancel>>
       ELSE /\ cout' = "done"
            /\ ncancel' = ncancel + 1
            /\ down' = [r \in Workers |->
                          IF r = 1 /\ r \in conns
                          THEN MasterRouter_send_control(down, r, CANCEL_TAG)[r]
                          ELSE down[r]]
    /\ UNCHANGED <<size, conns, routeAlive, up, inbox, cancel, rcv, arrived, returned,
                   CONFIG, JOB_ACTIVE, JOB_LOCK, COMM_WORLD, pc, cfg, fnOutcome, bidx,
                   fnSync, wpc, outcome, tdown, fresh, lastEnd>>
    /\ UNCHANGED <<msgvars, collvars>>

\* cancel_job: COMM_WORLD is read again (AttributeError when it is None by
\* now) and a CONTROL/CANCEL frame is sent to every rank in [1, size)
Cancel_send ==
    /\ cpc = "send"
    /\ cpc' = "idle"
    /\ UNCHANGED covl
    /\ IF COMM_WORLD = "None"
       THEN /\ cout' = "AttributeError"
            /\ UNCHANGED <<down, ncancel>>
       ELSE /\ cout' = "done"
            /\ ncancel' = ncancel + 1
            /\ down' = [r \in Workers |->
                          IF r < size /\ r \in conns
                          THEN MasterRouter_send_control(down, r, CANCEL_TAG)[r]
                          ELSE down[r]]
    /\ UNCHANGED <<size, conns, routeAlive, up, inbox, cancel, rcv, arrived, returned,
                   CONFIG, JOB_ACTIVE, JOB_LOCK, COMM_WORLD, pc, cfg, fnOutcome, bidx,
                   fnSync, wpc, outcome, tdown, fresh, lastEnd>>
    /\ UNCHANGED <<msgvars, collvars>>

\* the master process before any call: no configuration, no job
JobInit ==
    /\ size = 1
    /\ conns = {}
    /\ routeAlive = [r \in Workers |-> FALSE]
    /\ up = [r \in Workers |-> <<>>]
    /\ down = [r \in Workers |-> <<>>]
    /\ inbox = [r \in Ranks |-> <<>>]
    /\ cancel = [r \in Ranks |-> FALSE]
    /\ rcv = [r \in Ranks |-> RcvIdle]
    /\ arrived = [r \in Ranks |-> <<>>]
    /\ returned = [r \in Ranks |-> <<>>]
    /\ MsgIdle
    /\ CollIdle
    /\ CONFIG = NoConfig
    /\ JOB_ACTIVE = FALSE
    /\ JOB_LOCK = "free"
    /\ COMM_WORLD = "None"
    /\ pc = [t \in Threads |-> "idle"]
    /\ cfg = [t \in Threads |-> NoConfig]
    /\ fnOutcome = [t \in Threads |-> "none"]
    /\ bidx = 0
    /\ fnSync = FALSE
    /\ wpc = [r \in Workers |-> "off"]
    /\ cpc = "idle"
    /\ ncancel = 0
    /\ cout = "none"
    /\ covl = FALSE
    /\ outcome = [t \in Threads |-> "none"]
    /\ tdown = [t \in Threads |-> {}]
    /\ fresh = [t \in Threads |-> FALSE]
    /\ lastEnd = "none"

\* every message of a job carries tag BARRIER and no recv has a timeout, so
\* the put-back and timeout steps of recv cannot occur here
JobNext ==
    \/ \E hosts \in BOOLEAN, n \in WorkerCounts : Configure(hosts, n)
    \/ \E t \in Threads : Run_get_config(t)
    \/ \E t \in Threads : Run_acquire(t)
    \/ \E t \in Threads : Run_check(t)
    \/ \E t \in Threads : Run_set_active(t)
    \/ \E t \in Threads : Run_clear_cancel(t)
    \/ \E t \in Threads, sync \in BOOLEAN : Run_launch(t, sync)
    \/ \E t \in Threads, r \in Workers : Run_accept(t, r)
    \/ \E t \in Threads : Run_accept_timeout(t)
    \/ \E t \in Threads : Run_install(t)
    \/ \E t \in Threads, how \in {"return", "raise", "cancelled"} : Run_fn(t, how)
    \/ \E t \in Threads : Run_barrier_store(t)
    \/ \E t \in Threads : Run_barrier_send(t)
    \/ \E t \in Threads : Run_detach(t)
    \/ \E t \in Threads : Run_clear_config(t)
    \/ \E t \in Threads : Run_clear_event(t)
    \/ \E t \in Threads : Run_unlock(t)
    \/ Cancel_check
    \/ Cancel_set
    \/ Cancel_send
    \/ \E r \in Workers : Worker_init(r)
    \/ \E r \in Workers : Worker_fn(r)
    \/ \E r \in Workers : Worker_end(r)
    \/ \E r \in Workers : RouteLoop(r)
    \/ \E r \in Workers : RecvLoop(r)
    \/ \E r \in Ranks : Transport_get(r)

JobSpec == JobInit /\ [][JobNext]_vars


(* ------------------------ properties of JobSpec ----------------------- *)
\* a thread is past the job gate: it has set, or is about to set, the
\* active flag and has not cleared it yet
InJobPcs == {"clear", "launch", "accept", "install", "fn", "barrier_recv", "barrier_send",
             "detach", "clear_config", "clear_event", "unlock"}

Admitted(t) == pc[t] \in InJobPcs \cup {"set"}

AllTeardown == {"detach", "clear_config", "clear_event", "inactive"}

C2_TeardownOnEveryExit ==
    \A t \in Threads :
        (pc[t] = "idle" /\ fnOutcome[t] # "none") =>
            /\ tdown[t] = AllTeardown
            /\ outcome[t] = EndOf(fnOutcome[t])

\* a run call whose fn raised JobCancelled has ended
C2_Witness ==
    \E t \in Threads :
        /\ pc[t] = "idle"
        /\ outcome[t] = "JobCancelled"
        /\ tdown[t] = AllTeardown

\* C3: once a run call has ended, whatever its outcome, and no call of run
\* or cancel_job is running, the active flag is false and the cancel signal
\* is clear.
C3_UsableAfterRun ==
    (/\ \A t \in Threads : pc[t] = "idle"
     /\ \E t \in Threads : outcome[t] # "none"
     /\ cpc = "idle")
        => (~JOB_ACTIVE /\ ~cancel[0])

\* C4: when every worker has connected and fn has returned on every rank,
\* the worker processes having ended, run returns: rank 0 is not left in the
\* barrier of its teardown waiting for sentinels that no worker will send.
C4_RunReturns ==
    \A t \in Threads :
        ~(/\ pc[t] = "barrier_recv"
          /\ fnOutcome[t] = "return"
          /\ conns = 1..(size - 1)
          /\ \A r \in 1..(size - 1) : wpc[r] = "ended" /\ up[r] = <<>>
          /\ rcv[0].st = "get"
          /\ inbox[0] = <<>>)

(* --------------------- BarrSpec: Comm.barrier ------------------------- *)
\* number of collective calls in the plan that every rank executes
NumCalls == 2

\* a job of 2..MaxSize ranks whose workers are all connected and running fn
WorldInit ==
    /\ size \in 2..MaxSize
    /\ conns = 1..(size - 1)
    /\ routeAlive = [r \in Workers |-> TRUE]
    /\ up = [r \in Workers |-> <<>>]
    /\ down = [r \in Workers |-> <<>>]
    /\ inbox = [r \in Ranks |-> <<>>]
    /\ cancel = [r \in Ranks |-> FALSE]
    /\ rcv = [r \in Ranks |-> RcvIdle]
    /\ arrived = [r \in Ranks |-> <<>>]
    /\ returned = [r \in Ranks |-> <<>>]
    /\ MsgIdle
    /\ JobIdle

\* every rank of the job is about to execute the calls of the plan
PlanInit ==
    /\ root = 0
    /\ vals = [r \in Ranks |-> None]
    /\ gpc = [r \in Ranks |-> IF r < size THEN "call" ELSE "off"]
    /\ results = [r \in Ranks |-> <<>>]
    /\ gidx = [r \in Ranks |-> 0]
    /\ calls = [r \in Ranks |-> 0]
    /\ rets = [r \in Ranks |-> <<>>]
    /\ llog = <<>>

\* a collective call of `rank` returns `value`; the rank goes on to its next
\* call, if the plan has one
Collective_return(rank, value) ==
    /\ rets' = [rets EXCEPT ![rank] = Append(@, value)]
    /\ gpc' = [gpc EXCEPT ![rank] = IF calls[rank] = Len(plan) THEN "done" ELSE "call"]

\* the first rank other than `skip` from r on, or size when there is none
RECURSIVE NextRank(_, _)
NextRank(r, skip) ==
    IF r >= size THEN size
    ELSE IF r # skip THEN r
    ELSE NextRank(r + 1, skip)

\* Comm.barrier() is called on `rank`: rank 0 starts to receive from rank 1,
\* any other rank sends its sentinel to rank 0 and waits for the answer
Barrier_call(rank) ==
    /\ rank < size
    /\ gpc[rank] = "call"
    /\ calls[rank] < Len(plan)
    /\ plan[calls[rank] + 1].op = "barrier"
    /\ calls' = [calls EXCEPT ![rank] = @ + 1]
    /\ IF rank = 0
       THEN /\ gidx' = [gidx EXCEPT ![rank] = 1]
            /\ gpc' = [gpc EXCEPT ![rank] = "recv"]
            /\ Comm_recv_call(rank, 1, TAG_BARRIER, FALSE)
            /\ UNCHANGED <<up, down>>
       ELSE /\ Comm_send(rank, True, 0, TAG_BARRIER)
            /\ Comm_recv_call(rank, 0, TAG_BARRIER, FALSE)
            /\ gpc' = [gpc EXCEPT ![rank] = "recv"]
            /\ UNCHANGED gidx
    /\ UNCHANGED <<size, conns, routeAlive, inbox, cancel, arrived, returned, root, vals,
                   results, plan, rets, llog>>
    /\ UNCHANGED <<msgvars, jobvars>>

\* variant of Barrier_store: rank 0 stops receiving after the first sentinel
Barrier_store_first(rank) ==
    /\ gpc[rank] = "recv"
    /\ plan[calls[rank]].op = "barrier"
    /\ rcv[rank].st = "ret"
    /\ rcv' = [rcv EXCEPT ![rank] = RcvIdle]
    /\ IF rank = 0
       THEN /\ gidx' = [gidx EXCEPT ![rank] = 1]
            /\ gpc' = [gpc EXCEPT ![rank] = "send"]
            /\ UNCHANGED rets
       ELSE /\ Collective_return(rank, None)
            /\ UNCHANGED gidx
    /\ UNCHANGED <<size, conns, routeAlive, up, down, inbox, cancel, arrived, returned,
                   root, vals, results, plan, calls, llog>>
    /\ UNCHANGED <<msgvars, jobvars>>

\* Comm.barrier: a recv(source, tag=BARRIER) returned. Rank 0 receives from
\* the next rank or begins its second loop; any other rank returns
Barrier_store(rank) ==
    /\ gpc[rank] = "recv"
    /\ plan[calls[rank]].op = "barrier"
    /\ rcv[rank].st = "ret"
    /\ IF rank = 0 /\ gidx[rank] + 1 < size
       THEN /\ gidx' = [gidx EXCEPT ![rank] = @ + 1]
            /\ Comm_recv_call(rank, gidx[rank] + 1, TAG_BARRIER, FALSE)
            /\ UNCHANGED <<gpc, rets>>
       ELSE /\ rcv' = [rcv EXCEPT ![rank] = RcvIdle]
            /\ IF rank = 0
               THEN /\ gidx' = [gidx EXCEPT ![rank] = 1]
                    /\ gpc' = [gpc EXCEPT ![rank] = "send"]
                    /\ UNCHANGED rets
               ELSE /\ Collective_return(rank, None)
                    /\ UNCHANGED gidx
    /\ UNCHANGED <<size, conns, routeAlive, up, down, inbox, cancel, arrived, returned,
                   root, vals, results, plan, calls, llog>>
    /\ UNCHANGED <<msgvars, jobvars>>

\* Comm.barrier on rank 0, second loop: send(True, dest=r, tag=BARRIER),
\* and the return after the last rank
Barrier_send(rank) ==
    /\ rank = 0
    /\ gpc[rank] = "send"
    /\ plan[calls[rank]].op = "barrier"
    /\ Comm_send(rank, True, gidx[rank], TAG_BARRIER)
    /\ IF gidx[rank] + 1 < size
       THEN /\ gidx' = [gidx EXCEPT ![rank] = @ + 1]
            /\ UNCHANGED <<gpc, rets>>
       ELSE /\ gidx' = [gidx EXCEPT ![rank] = 0]
            /\ Collective_return(rank, None)
    /\ UNCHANGED <<size, conns, routeAlive, inbox, cancel, rcv, arrived, returned,
                   root, vals, results, plan, calls, llog>>
    /\ UNCHANGED <<msgvars, jobvars>>

\* every rank calls barrier() NumCalls times in a row
BarrInit ==
    /\ WorldInit
    /\ PlanInit
    /\ plan = [k \in 1..NumCalls |-> [op |-> "barrier", root |-> 0, arg |-> None]]

\* every message carries tag BARRIER and no recv has a timeout, so the
\* put-back and timeout steps of recv cannot occur here
BarrNext ==
    \/ \E r \in Ranks : Barrier_call(r)
    \/ \E r \in Ranks : Barrier_store(r)
    \/ \E r \in Ranks : Barrier_send(r)
    \/ \E r \in Workers : RouteLoop(r)
    \/ \E r \in Workers : RecvLoop(r)
    \/ \E r \in Ranks : Transport_get(r)

BarrSpec == BarrInit /\ [][BarrNext]_vars

\* every thread of every rank keeps running: a step that stays possible
\* is eventually taken
BarrLive == BarrSpec /\ WF_vars(BarrNext)

C12_BarrierTerminates ==
    <>(\A r \in 0..(size - 1) : Len(rets[r]) >= 1)

(* ---------------------- BcastSpec: Comm.bcast ------------------------- *)
\* Comm.bcast(value, root) is called on `rank`: root starts its loop over
\* the other ranks (and returns at once when there is none), any other
\* rank calls recv(source=root, tag=BCAST)
Bcast_call(rank) ==
    /\ rank < size
    /\ gpc[rank] = "call"
    /\ calls[rank] < Len(plan)
    /\ plan[calls[rank] + 1].op = "bcast"
    /\ calls' = [calls EXCEPT ![rank] = @ + 1]
    /\ LET c == plan[calls[rank] + 1]
       IN IF rank = c.root
          THEN /\ IF NextRank(0, c.root) < size
                  THEN /\ gidx' = [gidx EXCEPT ![rank] = NextRank(0, c.root)]
                       /\ gpc' = [gpc EXCEPT ![rank] = "send"]
                       /\ UNCHANGED rets
                  ELSE /\ rets' = [rets EXCEPT ![rank] = Append(@, c.arg)]
                       /\ gpc' = [gpc EXCEPT ![rank] =
                                     IF calls'[rank] = Len(plan) THEN "done" ELSE "call"]
                       /\ UNCHANGED gidx
               /\ UNCHANGED rcv
          ELSE /\ Comm_recv_call(rank, c.root, TAG_BCAST, FALSE)
               /\ gpc' = [gpc EXCEPT ![rank] = "recv"]
               /\ UNCHANGED <<gidx, rets>>
    /\ UNCHANGED <<size, conns, routeAlive, up, down, inbox, cancel, arrived, returned,
                   root, vals, results, plan, llog>>
    /\ UNCHANGED <<msgvars, jobvars>>

\* Comm.bcast on root: send(value, dest=r, tag=BCAST) for the next r # root,
\* and `return value` after the last one
Bcast_send(rank) ==
    /\ gpc[rank] = "send"
    /\ plan[calls[rank]].op = "bcast"
    /\ LET c == plan[calls[rank]]
       IN /\ Comm_send(rank, c.arg, gidx[rank], TAG_BCAST)
          /\ IF NextRank(gidx[rank] + 1, c.root) < size
             THEN /\ gidx' = [gidx EXCEPT ![rank] = NextRank(gidx[rank] + 1, c.root)]
                  /\ UNCHANGED <<gpc, rets>>
             ELSE /\ gidx' = [gidx EXCEPT ![rank] = 0]
                  /\ Collective_return(rank, c.arg)
    /\ UNCHANGED <<size, conns, routeAlive, inbox, cancel, rcv, arrived, returned,
                   root, vals, results, plan, calls, llog>>
    /\ UNCHANGED <<msgvars, jobvars>>

\* Comm.bcast on a non-root: `return self.recv(source=root, tag=TAG_BCAST)`
Bcast_store(rank) ==
    /\ gpc[rank] = "recv"
    /\ plan[calls[rank]].op = "bcast"
    /\ rcv[rank].st = "ret"
    /\ Collective_return(rank, rcv[rank].result)
    /\ rcv' = [rcv EXCEPT ![rank] = RcvIdle]
    /\ UNCHANGED <<size, conns, routeAlive, up, down, inbox, cancel, arrived, returned,
                   root, vals, results, gidx, plan, calls, llog>>
    /\ UNCHANGED <<msgvars, jobvars>>

\* every rank executes the same NumCalls bcast calls; each call has its own
\* root and the value its root passes
BcastInit ==
    /\ WorldInit
    /\ PlanInit
    /\ plan \in [1..NumCalls -> {[op |-> "bcast", root |-> q, arg |-> v] :
                                     q \in 0..(size - 1), v \in Values}]

\* every message carries tag BCAST and no recv has a timeout, so the
\* put-back and timeout steps of recv cannot occur here
BcastNext ==
    \/ \E r \in Ranks : Bcast_call(r)
    \/ \E r \in Ranks : Bcast_send(r)
    \/ \E r \in Ranks : Bcast_store(r)
    \/ \E r \in Workers : RouteLoop(r)
    \/ \E r \in Workers : RecvLoop(r)
    \/ \E r \in Ranks : Transport_get(r)

BcastSpec == BcastInit /\ [][BcastNext]_vars

BcastLive == BcastSpec /\ WF_vars(BcastNext)

(* ----------------------- properties of BcastSpec ---------------------- *)
\* C13: when all ranks execute the same sequence of bcast calls, each with
\* any root, every call returns on every rank the value passed by that
\* call's root, and every call terminates.
C13_BcastSequence ==
    /\ [](\A r \in 0..(size - 1) : \A k \in 1..Len(rets[r]) : rets[r][k] = plan[k].arg)
    /\ <>(\A r \in 0..(size - 1) : Len(rets[r]) = Len(plan))

(* --------------------- ScatSpec: Comm.scatter ------------------------- *)
\* the error raised by the length check of Comm.scatter
ValueError == -2

\* Comm.scatter(values, root) is called on `rank`: root checks the length
\* of the list and starts its loop over the other ranks, any other rank
\* calls recv(source=root, tag=SCATTER)
Scatter_call(rank) ==
    /\ rank < size
    /\ gpc[rank] = "call"
    /\ calls[rank] < Len(plan)
    /\ plan[calls[rank] + 1].op = "scatter"
    /\ calls' = [calls EXCEPT ![rank] = @ + 1]
    /\ LET c == plan[calls[rank] + 1]
           done == IF calls'[rank] = Len(plan) THEN "done" ELSE "call"
       IN IF rank = c.root
          THEN /\ IF Len(c.arg) # size
                  THEN /\ rets' = [rets EXCEPT ![rank] = Append(@, ValueError)]
                       /\ gpc' = [gpc EXCEPT ![rank] = done]
                       /\ UNCHANGED gidx
                  ELSE IF NextRank(0, c.root) < size
                  THEN /\ gidx' = [gidx EXCEPT ![rank] = NextRank(0, c.root)]
                       /\ gpc' = [gpc EXCEPT ![rank] = "send"]
                       /\ UNCHANGED rets
                  ELSE /\ rets' = [rets EXCEPT ![rank] = Append(@, At(c.arg, c.root))]
                       /\ gpc' = [gpc EXCEPT ![rank] = done]
                       /\ UNCHANGED gidx
               /\ UNCHANGED rcv
          ELSE /\ Comm_recv_call(rank, c.root, TAG_SCATTER, FALSE)
               /\ gpc' = [gpc EXCEPT ![rank] = "recv"]
               /\ UNCHANGED <<gidx, rets>>
    /\ UNCHANGED <<size, conns, routeAlive, up, down, inbox, cancel, arrived, returned,
                   root, vals, results, plan, llog>>
    /\ UNCHANGED <<msgvars, jobvars>>

\* variant of Scatter_send: every rank is sent the piece of root
Scatter_send_own(rank) ==
    /\ gpc[rank] = "send"
    /\ plan[calls[rank]].op = "scatter"
    /\ LET c == plan[calls[rank]]
       IN /\ Comm_send(rank, At(c.arg, c.root), gidx[rank], TAG_SCATTER)
          /\ IF NextRank(gidx[rank] + 1, c.root) < size
             THEN /\ gidx' = [gidx EXCEPT ![rank] = NextRank(gidx[rank] + 1, c.root)]
                  /\ UNCHANGED <<gpc, rets>>
             ELSE /\ gidx' = [gidx EXCEPT ![rank] = 0]
                  /\ Collective_return(rank, At(c.arg, c.root))
    /\ UNCHANGED <<size, conns, routeAlive, inbox, cancel, rcv, arrived, returned,
                   root, vals, results, plan, calls, llog>>
    /\ UNCHANGED <<msgvars, jobvars>>

\* Comm.scatter on root: send(values[r], dest=r, tag=SCATTER) for the next
\* r # root, and `return values[root]` after the last one
Scatter_send(rank) ==
    /\ gpc[rank] = "send"
    /\ plan[calls[rank]].op = "scatter"
    /\ LET c == plan[calls[rank]]
       IN /\ Comm_send(rank, At(c.arg, gidx[rank]), gidx[rank], TAG_SCATTER)
          /\ IF NextRank(gidx[rank] + 1, c.root) < size
             THEN /\ gidx' = [gidx EXCEPT ![rank] = NextRank(gidx[rank] + 1, c.root)]
                  /\ UNCHANGED <<gpc, rets>>
             ELSE /\ gidx' = [gidx EXCEPT ![rank] = 0]
                  /\ Collective_return(rank, At(c.arg, c.root))
    /\ UNCHANGED <<size, conns, routeAlive, inbox, cancel, rcv, arrived, returned,
                   root, vals, results, plan, calls, llog>>
    /\ UNCHANGED <<msgvars, jobvars>>

\* Comm.scatter on a non-root: `return self.recv(source=root, tag=TAG_SCATTER)`
Scatter_store(rank) ==
    /\ gpc[rank] = "recv"
    /\ plan[calls[rank]].op = "scatter"
    /\ rcv[rank].st = "ret"
    /\ Collective_return(rank, rcv[rank].result)
    /\ rcv' = [rcv EXCEPT ![rank] = RcvIdle]
    /\ UNCHANGED <<size, conns, routeAlive, up, down, inbox, cancel, arrived, returned,
                   root, vals, results, gidx, plan, calls, llog>>
    /\ UNCHANGED <<msgvars, jobvars>>

\* the lists of values of length n
ListsOf(n) == [1..n -> Values]

\* every rank calls scatter once, all with the same root; root passes a
\* list whose length is size, or one less, or one more
ScatInit ==
    /\ WorldInit
    /\ PlanInit
    /\ \E q \in 0..(size - 1) :
       \E l \in ListsOf(size - 1) \cup ListsOf(size) \cup ListsOf(size + 1) :
           plan = <<[op |-> "scatter", root |-> q, arg |-> l]>>

\* every message carries tag SCATTER and no recv has a timeout, so the
\* put-back and timeout steps of recv cannot occur here
ScatNext ==
    \/ \E r \in Ranks : Scatter_call(r)
    \/ \E r \in Ranks : Scatter_send(r)
    \/ \E r \in Ranks : Scatter_store(r)
    \/ \E r \in Workers : RouteLoop(r)
    \/ \E r \in Workers : RecvLoop(r)
    \/ \E r \in Ranks : Transport_get(r)

ScatSpec == ScatInit /\ [][ScatNext]_vars

(* ----------------------- properties of ScatSpec ----------------------- *)
\* the recv of `rank` waits on an empty inbox although root has returned
\* and no frame for `rank` is in flight
ScatterBlocked(rank) ==
    /\ gpc[rank] = "recv"
    /\ rcv[rank].st = "get"
    /\ inbox[rank] = <<>>
    /\ NothingInFlightTo(rank)
    /\ gpc[plan[1].root] = "done"

\* C14: when every rank calls scatter with the same root and root passes a
\* list of length size, the call of rank r returns values[r], root
\* included; every non-root receives exactly one message, which carries tag
\* SCATTER, root receives none, and no rank is left waiting.
C14_ScatterPieces ==
    (Len(plan[1].arg) = size) =>
        \A r \in 0..(size - 1) :
            /\ gpc[r] = "done" => rets[r] = <<At(plan[1].arg, r)>>
            /\ ~ScatterBlocked(r)
            /\ Len(arrived[r]) <= (IF r = plan[1].root THEN 0 ELSE 1)
            /\ \A i \in 1..Len(arrived[r]) : arrived[r][i].tag = TAG_SCATTER
            /\ (gpc[r] = "done" /\ r # plan[1].root) => Len(arrived[r]) = 1

\* in a job of three ranks a worker rank was the root, the pieces were not
\* all equal, and every rank has returned
C14_Witness ==
    /\ size >= 3
    /\ plan[1].root # 0
    /\ Len(plan[1].arg) = size
    /\ \E i, j \in 1..size : plan[1].arg[i] # plan[1].arg[j]
    /\ \A r \in 0..(size - 1) : gpc[r] = "done"

(* ----------------------- LocalSpec: LocalComm ------------------------- *)
\* number of calls made on the LocalComm
MaxLocalCalls == 2

\* the errors a call on a LocalComm can end with
RuntimeError == -3

IndexError == -4

\* LocalComm.send
LocalComm_send(obj, dest, tag) == RuntimeError

\* LocalComm.recv
LocalComm_recv(source, tag) == RuntimeError

\* LocalComm.bcast
LocalComm_bcast(value) == value

\* LocalComm.scatter: `return values[0]`, without a test of the length
LocalComm_scatter(values) == IF Len(values) = 0 THEN IndexError ELSE At(values, 0)

\* variant of LocalComm_gather: the list has size + 1 elements
LocalComm_gather_twice(value) == <<value, value>>

\* LocalComm.gather
LocalComm_gather(value) == <<value>>

\* LocalComm.barrier
LocalComm_barrier == None

\* the log of the calls after one more call, with its argument and result
Logged(op, arg, ret) == Append(llog, [op |-> op, arg |-> arg, ret |-> ret])

\* comm.send(obj, 0) is called on the LocalComm
Local_send(obj) ==
    /\ Len(llog) < MaxLocalCalls
    /\ llog' = Logged("send", obj, LocalComm_send(obj, 0, TAG_USER))
    /\ UNCHANGED <<netvars, msgvars, jobvars>>
    /\ UNCHANGED <<root, vals, gpc, results, gidx, plan, calls, rets>>

\* comm.recv() is called on the LocalComm
Local_recv ==
    /\ Len(llog) < MaxLocalCalls
    /\ llog' = Logged("recv", None, LocalComm_recv(None, None))
    /\ UNCHANGED <<netvars, msgvars, jobvars>>
    /\ UNCHANGED <<root, vals, gpc, results, gidx, plan, calls, rets>>

\* comm.bcast(value) is called on the LocalComm
Local_bcast(value) ==
    /\ Len(llog) < MaxLocalCalls
    /\ llog' = Logged("bcast", value, LocalComm_bcast(value))
    /\ UNCHANGED <<netvars, msgvars, jobvars>>
    /\ UNCHANGED <<root, vals, gpc, results, gidx, plan, calls, rets>>

\* comm.scatter(values) is called on the LocalComm
Local_scatter(values) ==
    /\ Len(llog) < MaxLocalCalls
    /\ llog' = Logged("scatter", values, LocalComm_scatter(values))
    /\ UNCHANGED <<netvars, msgvars, jobvars>>
    /\ UNCHANGED <<root, vals, gpc, results, gidx, plan, calls, rets>>

\* comm.gather(value) is called on the LocalComm
Local_gather(value) ==
    /\ Len(llog) < MaxLocalCalls
    /\ llog' = Logged("gather", value, LocalComm_gather(value))
    /\ UNCHANGED <<netvars, msgvars, jobvars>>
    /\ UNCHANGED <<root, vals, gpc, results, gidx, plan, calls, rets>>

\* comm.barrier() is called on the LocalComm
Local_barrier ==
    /\ Len(llog) < MaxLocalCalls
    /\ llog' = Logged("barrier", None, LocalComm_barrier)
    /\ UNCHANGED <<netvars, msgvars, jobvars>>
    /\ UNCHANGED <<root, vals, gpc, results, gidx, plan, calls, rets>>

\* a process without a cluster: comm = LocalComm(), size 1, rank 0
LocalInit ==
    /\ size = 1
    /\ conns = {}
    /\ routeAlive = [r \in Workers |-> FALSE]
    /\ up = [r \in Workers |-> <<>>]
    /\ down = [r \in Workers |-> <<>>]
    /\ inbox = [r \in Ranks |-> <<>>]
    /\ cancel = [r \in Ranks |-> FALSE]
    /\ rcv = [r \in Ranks |-> RcvIdle]
    /\ arrived = [r \in Ranks |-> <<>>]
    /\ returned = [r \in Ranks |-> <<>>]
    /\ MsgIdle
    /\ CollIdle
    /\ JobIdle

\* the lists passed to scatter on the LocalComm: of length size = 1, one
\* less and one more
LocalLists == ListsOf(0) \cup ListsOf(1) \cup ListsOf(2)

LocalNext ==
    \/ \E v \in Values : Local_send(v)
    \/ Local_recv
    \/ \E v \in Values : Local_bcast(v)
    \/ \E l \in LocalLists : Local_scatter(l)
    \/ \E v \in Values : Local_gather(v)
    \/ Local_barrier

LocalSpec == LocalInit /\ [][LocalNext]_vars

(* ----------------------- properties of LocalSpec ---------------------- *)
\* C15: scatter(values) with len(values) # size fails with ValueError, on
\* the single-process communicator (size 1) too, and no message has been
\* sent when it fails.
C15_ScatterLengthCheck ==
    \A i \in 1..Len(llog) :
        (llog[i].op = "scatter" /\ Len(llog[i].arg) # size) =>
            /\ llog[i].ret = ValueError
            /\ \A r \in Workers : up[r] = <<>> /\ down[r] = <<>>

\* C16: on the single-process communicator bcast(v) returns v, gather(v)
\* returns [v], scatter([v]) returns v, barrier() returns without error
\* (None), and send and recv fail (RuntimeError).
C16_LocalIdentities ==
    /\ size = 1
    /\ \A i \in 1..Len(llog) :
        LET c == llog[i]
        IN /\ c.op = "bcast" => c.ret = c.arg
           /\ c.op = "gather" => c.ret = <<c.arg>>
           /\ (c.op = "scatter" /\ Len(c.arg) = 1) => c.ret = c.arg[1]
           /\ c.op = "barrier" => c.ret = None
           /\ c.op \in {"send", "recv"} => c.ret = RuntimeError

\* a gather and a scatter of a one-element list were called
C16_Witness ==
    /\ Len(llog) = 2
    /\ llog[1].op = "gather"
    /\ llog[2].op = "scatter"
    /\ Len(llog[2].arg) = 1

(* ------------- CancelSpec: cancel_job during a running job ------------ *)
\* a job of 2..MaxSize ranks is running: thread t1 of the master is in
\* fn(*args, **kwargs) of run, every worker has connected and is in fn
CancelInit ==
    /\ size \in 2..MaxSize
    /\ conns = 1..(size - 1)
    /\ routeAlive = [r \in Workers |-> r < size]
    /\ up = [r \in Workers |-> <<>>]
    /\ down = [r \in Workers |-> <<>>]
    /\ inbox = [r \in Ranks |-> <<>>]
    /\ cancel = [r \in Ranks |-> FALSE]
    /\ rcv = [r \in Ranks |-> RcvIdle]
    /\ arrived = [r \in Ranks |-> <<>>]
    /\ returned = [r \in Ranks |-> <<>>]
    /\ MsgIdle
    /\ CollIdle
    /\ CONFIG = [set |-> TRUE, hosts |-> TRUE, workers |-> size - 1]
    /\ JOB_ACTIVE = TRUE
    /\ JOB_LOCK = "free"
    /\ COMM_WORLD = "Comm"
    /\ pc = [t \in Threads |-> IF t = "t1" THEN "fn" ELSE "idle"]
    /\ cfg = [t \in Threads |-> IF t = "t1" THEN CONFIG ELSE NoConfig]
    /\ fnOutcome = [t \in Threads |-> "none"]
    /\ bidx = 0
    /\ fnSync \in BOOLEAN
    /\ wpc = [r \in Workers |-> IF r < size THEN "fn" ELSE "off"]
    /\ cpc = "idle"
    /\ ncancel = 0
    /\ cout = "none"
    /\ covl = FALSE
    /\ outcome = [t \in Threads |-> IF t = "t1" THEN "running" ELSE "none"]
    /\ tdown = [t \in Threads |-> {}]
    /\ fresh = [t \in Threads |-> FALSE]
    /\ lastEnd = "none"

\* the steps of JobSpec but configure_infra: no new configuration is made
CancelNext ==
    \/ \E t \in Threads : Run_get_config(t)
    \/ \E t \in Threads : Run_acquire(t)
    \/ \E t \in Threads : Run_check(t)
    \/ \E t \in Threads : Run_set_active(t)
    \/ \E t \in Threads : Run_clear_cancel(t)
    \/ \E t \in Threads, sync \in BOOLEAN : Run_launch(t, sync)
    \/ \E t \in Threads, r \in Workers : Run_accept(t, r)
    \/ \E t \in Threads : Run_accept_timeout(t)
    \/ \E t \in Threads : Run_install(t)
    \/ \E t \in Threads, how \in {"return", "raise", "cancelled"} : Run_fn(t, how)
    \/ \E t \in Threads : Run_barrier_store(t)
    \/ \E t \in Threads : Run_barrier_send(t)
    \/ \E t \in Threads : Run_detach(t)
    \/ \E t \in Threads : Run_clear_config(t)
    \/ \E t \in Threads : Run_clear_event(t)
    \/ \E t \in Threads : Run_unlock(t)
    \/ Cancel_check
    \/ Cancel_set
    \/ Cancel_send
    \/ \E r \in Workers : Worker_init(r)
    \/ \E r \in Workers : Worker_fn(r)
    \/ \E r \in Workers : Worker_end(r)
    \/ \E r \in Workers : RouteLoop(r)
    \/ \E r \in Workers : RecvLoop(r)
    \/ \E r \in Ranks : Transport_get(r)

CancelSpec == CancelInit /\ [][CancelNext]_vars

\* every thread of a worker keeps running: a frame that can be read is read
CancelLive == CancelSpec /\ \A r \in Workers : WF_vars(RecvLoop(r))

(* ------------------ properties of CancelSpec and JobSpec -------------- *)
\* a CONTROL/CANCEL frame written for worker `rank` has not been read yet
CancelPending(rank) ==
    \E i \in 1..Len(down[rank]) :
        down[rank][i].type = CONTROL /\ down[rank][i].tag = CANCEL_TAG

\* the process of worker `rank` is running
WorkerRunning(rank) == wpc[rank] \in {"fn", "barrier"}

\* a cancel_job call that was made while fn was running has returned, and
\* fn is still running
CancelReturned ==
    /\ cout = "done"
    /\ ncancel > 0
    /\ ~covl
    /\ \E t \in Threads : pc[t] = "fn"

C18_CancelLatch ==
    [][\A r \in Ranks :
         (cancel[r] /\ ~cancel'[r]) =>
             IF r = 0
             THEN \/ \E t \in Threads : pc[t] = "clear_event" /\ pc'[t] = "unlock"
                  \/ \E t \in Threads : pc[t] = "clear" /\ pc'[t] = "launch" /\ covl
             ELSE \E t \in Threads : pc[t] = "launch" /\ pc'[t] = "accept"]_vars

\* the signal of a worker is set, the worker has since received the
\* sentinel of the barrier, and a run call of another thread was rejected
C18_Witness ==
    \E r \in Workers, t \in Threads :
        /\ cancel[r]
        /\ cancel[0]
        /\ wpc[r] = "ended"
        /\ Len(arrived[r]) >= 1
        /\ outcome[t] = "JobStateError"

\* C19: a cancel_job call made when no job is active fails with
\* JobStateError, leaves the cancel signal as it is and sends no frame.
C19_CancelNoJob ==
    [][(cpc = "idle" /\ ~JOB_ACTIVE /\ (cpc' # cpc \/ cout' # cout)) =>
          /\ cout' = "JobStateError"
          /\ cpc' = "idle"
          /\ cancel' = cancel
          /\ down' = down]_vars

\* the master is configured and no run call has been made yet: a cancel_job
\* call has failed with JobStateError and nothing is set or in flight
C19_Witness ==
    /\ cout = "JobStateError"
    /\ CONFIG.set
    /\ lastEnd = "none"
    /\ ~JOB_ACTIVE
    /\ \A t \in Threads : pc[t] = "idle" /\ outcome[t] = "none"
    /\ \A r \in Ranks : ~cancel[r]
    /\ \A r \in Workers : ~CancelPending(r)

(* ------------------ MsgLive: MsgSpec with running threads ------------- *)
\* the receive loops and the thread in recv keep running: a step of theirs
\* that stays possible is eventually taken. Nothing is assumed of the calls
\* the application makes.
MsgLive ==
    /\ MsgSpec
    /\ \A r \in Workers : WF_vars(RouteLoop(r)) /\ WF_vars(RecvLoop(r))
    /\ \A r \in Ranks : WF_vars(Transport_get(r))
    /\ \A r \in Ranks : WF_vars(Transport_put(r))
    /\ \A r \in Ranks : WF_vars(Transport_timeout(r))

\* C20: a recv call with a finite timeout ends: it returns a matching
\* message or, when none arrives, fails with Timeout, also when the inbox
\* holds messages that do not match the filter.
C20_TimedRecvEnds ==
    \A r \in Ranks :
        []((rcv[r].timed /\ rcv[r].st \in {"get", "put"})
              => <>(rcv[r].st \in {"ret", "timeout"}))

(* ------------------- WireSpec: the frame as bytes --------------------- *)
\* longest payload, in bytes
MaxPayload == 2

\* HEADER_STRUCT.size: struct "!I B I I I"
HeaderSize == 17

\* An unsigned 32-bit integer is written <<hi, lo>>, its upper and its lower
\* 16 bits, so that the whole range 0 .. 2^32 - 1 is inside the integers
\* the model checker has.
Word(n) == <<n \div 65536, n % 65536>>

\* variant of U32: the four bytes in little-endian order
U32_le(w) == <<w[2] % 256, (w[2] \div 256) % 256, w[1] % 256, (w[1] \div 256) % 256>>

\* struct format "!I": an unsigned 32-bit integer as four bytes, network order
U32(w) == <<(w[1] \div 256) % 256, w[1] % 256, (w[2] \div 256) % 256, w[2] % 256>>

\* struct format "!I" read back
FromU32(b) == <<b[1] * 256 + b[2], b[3] * 256 + b[4]>>

\* HEADER_STRUCT.pack(length, type, src, dest, tag)
HEADER_STRUCT_pack(length, type, src, dest, tag) ==
    U32(length) \o <<type % 256>> \o U32(src) \o U32(dest) \o U32(tag)

\* HEADER_STRUCT.unpack(data), data of HeaderSize bytes
HEADER_STRUCT_unpack(data) ==
    <<FromU32(SubSeq(data, 1, 4)), data[5], FromU32(SubSeq(data, 6, 9)),
      FromU32(SubSeq(data, 10, 13)), FromU32(SubSeq(data, 14, 17))>>

\* pack_message as bytes: header + payload
pack_message_bytes(msg_type, src, dest, tag, payload) ==
    HEADER_STRUCT_pack(Word(Len(payload)), msg_type, src, dest, tag) \o payload

\* MsgType(value): the enum member of the value, ValueError for any other
MsgType(value) == IF value \in {DATA, CONTROL} THEN value ELSE ValueError

\* unpack_header on HeaderSize bytes
unpack_header_bytes(data) ==
    LET t == HEADER_STRUCT_unpack(data)
    IN <<t[1], MsgType(t[2]), t[3], t[4], t[5]>>

\* values of the u32 range: both ends and the values around each byte border
U32Samples == {<<0, 0>>, <<0, 255>>, <<0, 256>>, <<0, 65535>>, <<1, 0>>, <<256, 0>>,
               <<65535, 65535>>}

\* payloads of up to MaxPayload bytes
Payloads == UNION {[1..n -> {0, 255}] : n \in 0..MaxPayload}

\* pack_message(msg_type, src, dest, tag, payload) is called
Wire_pack(msg_type, src, dest, tag, payload) ==
    /\ wire.st = "none"
    /\ wire' = [st |-> "packed", type |-> msg_type, src |-> src, dest |-> dest,
                tag |-> tag, payload |-> payload,
                frame |-> pack_message_bytes(msg_type, src, dest, tag, payload)]
    /\ UNCHANGED <<netvars, collvars, jobvars, rx, sentLog, nrecv, filterMix, wr, acc>>

\* a reader takes the first HeaderSize bytes of the frame, calls unpack_header
\* on them and keeps the bytes that follow
Wire_unpack ==
    /\ wire.st = "packed"
    /\ wire' = [wire EXCEPT !.st = "unpacked"] @@
               [header |-> unpack_header_bytes(SubSeq(wire.frame, 1, HeaderSize)),
                rest |-> SubSeq(wire.frame, HeaderSize + 1, Len(wire.frame))]
    /\ UNCHANGED <<netvars, collvars, jobvars, rx, sentLog, nrecv, filterMix, wr, acc>>

WireInit ==
    /\ NetInit
    /\ MsgIdle
    /\ CollIdle
    /\ JobIdle

WireNext ==
    \/ \E msg_type \in {DATA, CONTROL}, src \in U32Samples, dest \in U32Samples,
          tag \in U32Samples, payload \in Payloads :
          Wire_pack(msg_type, src, dest, tag, payload)
    \/ Wire_unpack

WireSpec == WireInit /\ [][WireNext]_vars

(* ----------------------- properties of WireSpec ----------------------- *)
\* C21: for every type in {DATA, CONTROL}, every src, dest, tag of the u32
\* range and every payload, unpack_header on the first 17 bytes of the
\* frame returns (len(payload), type, src, dest, tag), and the bytes after
\* the header are the payload.
C21_FrameRoundTrip ==
    /\ wire.st = "packed" => Len(wire.frame) = HeaderSize + Len(wire.payload)
    /\ wire.st = "unpacked" =>
          /\ wire.header = <<Word(Len(wire.payload)), wire.type, wire.src, wire.dest,
                              wire.tag>>
          /\ wire.rest = wire.payload

\* a CONTROL frame with the largest src, a tag above one byte and a
\* payload of two bytes was packed and read back
C21_Witness ==
    /\ wire.st = "unpacked"
    /\ wire.type = CONTROL
    /\ wire.src = <<65535, 65535>>
    /\ wire.tag = <<1, 0>>
    /\ Len(wire.payload) = 2

(* --------------- WriteSpec: writes to a worker's socket --------------- *)
\* number of send calls made by the ranks
MaxWrites == 3

\* a thread of the master that is not inside a sendall call
NoWrite == [st |-> "idle", dest |-> None, frame |-> pack_message(None, None, None, None, <<>>)]

\* what one send() system call of a sendall puts on the stream of a socket:
\* the whole frame, or its first bytes, or the bytes that were left
Chunk(by, frame, part) == [by |-> by, frame |-> frame, part |-> part]

\* a thread of the master reaches target.sendall(msg)
Sendall_call(w, dest, frame) ==
    [wr EXCEPT !.th[w] = [st |-> "in", dest |-> dest, frame |-> frame]]

\* MasterRouter.send / MasterRouter.send_control called by the main thread
\* of the master, up to its sendall
Write_main(dest, control) ==
    /\ wr.th[0].st = "idle"
    /\ wr.n < MaxWrites
    /\ dest \in conns
    /\ LET frame == IF control THEN pack_message(CONTROL, 0, dest, CANCEL_TAG, <<>>)
                    ELSE pack_message(DATA, 0, dest, TAG_USER, dumps(wr.n + 1))
       IN wr' = [Sendall_call(0, dest, frame) EXCEPT !.n = @ + 1]
    /\ UNCHANGED <<netvars, collvars, jobvars, rx, sentLog, nrecv, filterMix, wire, acc>>

\* the dest argument of a worker's send: the ranks of the world and one
\* rank that has no connection
Dests == 0..MaxSize

\* WorkerTransport.send on worker `rank`: one DATA frame on its socket
Write_worker(rank, dest) ==
    /\ rank # dest
    /\ wr.n < MaxWrites
    /\ up' = WorkerTransport_send(up, rank, dest, TAG_USER, wr.n + 1)
    /\ sentLog' = [sentLog EXCEPT ![rank] = Append(@, Message(rank, dest, TAG_USER, wr.n + 1))]
    /\ wr' = [wr EXCEPT !.n = @ + 1]
    /\ UNCHANGED <<size, conns, routeAlive, down, inbox, cancel, rcv, arrived, returned>>
    /\ UNCHANGED <<collvars, jobvars, rx, nrecv, filterMix, wire, acc>>

\* MasterRouter._route_loop of worker `rank`: one frame read, up to the
\* sendall that forwards it
Write_route(rank) ==
    /\ rank \in conns
    /\ routeAlive[rank]
    /\ wr.th[rank].st = "idle"
    /\ up[rank] # <<>>
    /\ LET frame == Head(up[rank])
           h == unpack_header(frame)
       IN /\ up' = [up EXCEPT ![rank] = Tail(@)]
          /\ IF h.type = DATA /\ h.dest = 0
             THEN LET msg == Message(h.src, h.dest, h.tag, loads(frame.payload))
                  IN /\ inbox' = [inbox EXCEPT ![0] = InboxPut(@, msg)]
                     /\ arrived' = [arrived EXCEPT ![0] = Append(@, msg)]
                     /\ UNCHANGED <<wr, routeAlive>>
             ELSE IF h.type = DATA /\ h.dest \in conns
             THEN /\ wr' = Sendall_call(rank, h.dest,
                               pack_message(DATA, h.src, h.dest, h.tag, frame.payload))
                  /\ UNCHANGED <<inbox, arrived, routeAlive>>
             ELSE IF h.type = DATA
             THEN /\ routeAlive' = [routeAlive EXCEPT ![rank] = FALSE]
                  /\ UNCHANGED <<inbox, arrived, wr>>
             ELSE UNCHANGED <<inbox, arrived, wr, routeAlive>>
    /\ UNCHANGED <<size, conns, down, cancel, rcv, returned>>
    /\ UNCHANGED <<collvars, jobvars, rx, sentLog, nrecv, filterMix, wire, acc>>

\* one send() of the sendall thread w is in: it takes all the bytes that
\* are left, or only some of them; no lock is held around the call
Sendall_send(w, all) ==
    /\ wr.th[w].st # "idle"
    /\ LET c == wr.th[w]
           part == IF c.st = "half" THEN "tail" ELSE IF all THEN "whole" ELSE "head"
       IN /\ down' = [down EXCEPT ![c.dest] = Append(@, Chunk(w, c.frame, part))]
          /\ wr' = IF part = "head" THEN [wr EXCEPT !.th[w].st = "half"]
                   ELSE [wr EXCEPT !.th[w] = NoWrite]
    /\ UNCHANGED <<size, conns, routeAlive, up, inbox, cancel, rcv, arrived, returned>>
    /\ UNCHANGED <<collvars, jobvars, rx, sentLog, nrecv, filterMix, wire, acc>>

\* WorkerTransport._recv_loop of worker `rank` on the bytes of its socket:
\* with a whole frame at the front it does what RecvLoop does; with the
\* first bytes of one frame followed by bytes of another, what it reads as
\* header and payload is not a frame, and the loop ends with the exception
\* that unpack_header or loads raises (neither is an OSError)
Write_recv(rank) ==
    /\ rank \in Workers \ wr.dead
    /\ down[rank] # <<>>
    /\ LET c == Head(down[rank])
           split == c.part = "head"
           whole == \/ c.part = "whole"
                    \/ /\ split
                       /\ Len(down[rank]) > 1
                       /\ down[rank][2].part = "tail"
                       /\ down[rank][2].by = c.by
           h == unpack_header(c.frame)
       IN /\ split => Len(down[rank]) > 1
          /\ IF whole
             THEN /\ down' = [down EXCEPT ![rank] = IF split THEN Tail(Tail(@)) ELSE Tail(@)]
                  /\ UNCHANGED wr
                  /\ IF h.type = DATA
                     THEN LET msg == Message(h.src, h.dest, h.tag, loads(c.frame.payload))
                          IN /\ inbox' = [inbox EXCEPT ![rank] = InboxPut(@, msg)]
                             /\ arrived' = [arrived EXCEPT ![rank] = Append(@, msg)]
                             /\ UNCHANGED cancel
                     ELSE IF h.type = CONTROL /\ h.tag = CANCEL_TAG
                     THEN /\ cancel' = [cancel EXCEPT ![rank] = TRUE]
                          /\ UNCHANGED <<inbox, arrived>>
                     ELSE UNCHANGED <<inbox, arrived, cancel>>
             ELSE /\ wr' = [wr EXCEPT !.dead = @ \cup {rank}]
                  /\ UNCHANGED <<down, inbox, arrived, cancel>>
    /\ UNCHANGED <<size, conns, routeAlive, up, rcv, returned>>
    /\ UNCHANGED <<collvars, jobvars, rx, sentLog, nrecv, filterMix, wire, acc>>

\* run is inside fn(*args) on thread t1, every worker inside its own fn
JobMidRun ==
    /\ CONFIG = [set |-> TRUE, hosts |-> TRUE, workers |-> MaxSize - 1]
    /\ JOB_ACTIVE = TRUE
    /\ JOB_LOCK = "free"
    /\ COMM_WORLD = "Comm"
    /\ pc = [t \in Threads |-> IF t = "t1" THEN "fn" ELSE "idle"]
    /\ cfg = [t \in Threads |-> IF t = "t1" THEN CONFIG ELSE NoConfig]
    /\ fnOutcome = [t \in Threads |-> "none"]
    /\ bidx = 0
    /\ fnSync = FALSE
    /\ wpc = [r \in Workers |-> "fn"]
    /\ cpc = "idle"
    /\ ncancel = 0
    /\ cout = "none"
    /\ covl = FALSE
    /\ outcome = [t \in Threads |-> IF t = "t1" THEN "running" ELSE "none"]
    /\ tdown = [t \in Threads |-> {}]
    /\ fresh = [t \in Threads |-> FALSE]
    /\ lastEnd = "none"

WriteInit ==
    /\ NetInit
    /\ CollIdle
    /\ JobMidRun
    /\ rx = 0
    /\ sentLog = [r \in Ranks |-> <<>>]
    /\ nrecv = 0
    /\ filterMix = "none"
    /\ WireIdle
    /\ AcceptIdle
    /\ wr = [th |-> [w \in Ranks |-> NoWrite], n |-> 0, dead |-> {}]

WriteNext ==
    \/ \E dest \in Workers, control \in BOOLEAN : Write_main(dest, control)
    \/ \E rank \in Workers, dest \in Dests : Write_worker(rank, dest)
    \/ \E rank \in Workers : Write_route(rank)
    \/ \E w \in Ranks, all \in BOOLEAN : Sendall_send(w, all)
    \/ \E rank \in Workers : Write_recv(rank)

WriteSpec == WriteInit /\ [][WriteNext]_vars

(* ---------------------- properties of WriteSpec ----------------------- *)
\* the threads of the master that are inside a sendall on the socket of dest
WritersOf(dest) == {w \in Ranks : wr.th[w].st # "idle" /\ wr.th[w].dest = dest}

\* every first part of a frame on the stream is followed by the rest of
\* the same frame, if by anything
FramesWhole(stream) ==
    \A i \in 1..Len(stream) :
        /\ stream[i].part = "head" /\ i < Len(stream) =>
              stream[i + 1].part = "tail" /\ stream[i + 1].by = stream[i].by
        /\ stream[i].part = "tail" =>
              i > 1 /\ stream[i - 1].part = "head" /\ stream[i - 1].by = stream[i].by

\* C22: at no time do two threads of the master write to the socket of the
\* same worker at once (two route loops forwarding to one destination, or a
\* route loop and the main thread's send / send_control), so the frames on
\* a worker's socket never interleave.
C22_OneWriterPerSocket ==
    \A dest \in Workers :
        /\ Cardinality(WritersOf(dest)) <= 1
        /\ FramesWhole(down[dest])


\* how often msg occurs in the sequence s
Count(s, msg) == Cardinality({k \in 1..Len(s) : s[k] = msg})

\* nothing is on its way: no frame unread by a route loop, no thread in a
\* sendall, no bytes unread by a receive loop that still runs
WriteQuiet ==
    /\ \A r \in Workers : up[r] = <<>>
    /\ \A w \in Ranks : wr.th[w].st = "idle"
    /\ \A r \in Workers \ wr.dead : down[r] = <<>>

\* the messages workers sent to other workers
WorkerToWorker == {m \in UNION {Range(sentLog[r]) : r \in Workers} : m.dest \in Workers}

\* C23: a DATA frame from worker i to a connected worker j is written by the
\* master to j's socket with the same length, type, src, dest, tag and
\* payload, is never put in the master's inbox, and ends up in j's inbox
\* exactly once; the master's inbox only holds messages of DATA frames
\* with dest = 0.
C23_RoutedOnce ==
    /\ \A k \in 1..Len(arrived[0]) : arrived[0][k].dest = 0
    /\ \A m \in WorkerToWorker :
          /\ Count(arrived[0], m) = 0
          /\ \A d \in Workers : \A k \in 1..Len(down[d]) :
                down[d][k].frame.src = m.src /\ down[d][k].frame.payload = dumps(m.payload) =>
                   down[d][k].frame = pack_message(DATA, m.src, m.dest, m.tag, dumps(m.payload))
          /\ Count(arrived[m.dest], m) <= 1
          /\ WriteQuiet => Count(arrived[m.dest], m) = 1


\* C24: a frame to a nonzero dest that has no connection is a TransportError
\* that fails fast: the frame is delivered to no inbox, and the job on the
\* master fails with that error instead of going on with the later frames
\* of that worker silently unrouted.
C24_UnknownDestFailsJob ==
    /\ \A q \in Ranks : \A k \in 1..Len(arrived[q]) : arrived[q][k].dest \in Ranks
    /\ \A r \in Workers :
          ~routeAlive[r] => \E t \in Threads : outcome[t] = "TransportError"


(* ------------- RecvSpec: the receive loop of a worker ----------------- *)
\* number of frames the master writes to the workers' sockets
MaxFrames == 3

\* MasterRouter.send(dest, tag, obj): a DATA frame to worker dest
Recv_send(dest, tag) ==
    /\ Len(sentLog[0]) < MaxFrames
    /\ dest \in conns
    /\ LET obj == Len(sentLog[0]) + 1
       IN /\ down' = MasterRouter_send(down, dest, tag, obj)
          /\ sentLog' = [sentLog EXCEPT ![0] =
                            Append(@, pack_message(DATA, 0, dest, tag, dumps(obj)))]
    /\ UNCHANGED <<size, conns, routeAlive, up, inbox, cancel, rcv, arrived, returned>>
    /\ UNCHANGED <<rx, nrecv, filterMix, extvars, collvars, jobvars>>

\* MasterRouter.send_control(dest, tag): a CONTROL frame to worker dest
Recv_send_control(dest, tag) ==
    /\ Len(sentLog[0]) < MaxFrames
    /\ dest \in conns
    /\ down' = MasterRouter_send_control(down, dest, tag)
    /\ sentLog' = [sentLog EXCEPT ![0] = Append(@, pack_message(CONTROL, 0, dest, tag, <<>>))]
    /\ UNCHANGED <<size, conns, routeAlive, up, inbox, cancel, rcv, arrived, returned>>
    /\ UNCHANGED <<rx, nrecv, filterMix, extvars, collvars, jobvars>>

RecvInit ==
    /\ NetInit
    /\ MsgIdle
    /\ CollIdle
    /\ JobMidRun

RecvNext ==
    \/ \E dest \in Workers, tag \in {TAG_USER, CANCEL_TAG} : Recv_send(dest, tag)
    \/ \E dest \in Workers, tag \in {CANCEL_TAG, HELLO_TAG, TAG_USER} :
          Recv_send_control(dest, tag)
    \/ \E rank \in Workers : RecvLoop(rank)

RecvSpec == RecvInit /\ [][RecvNext]_vars

(* ----------------------- properties of RecvSpec ----------------------- *)
\* the frames written to the socket of worker r that it has read
FramesRead(r) ==
    LET to == SelectSeq(sentLog[0], LAMBDA f : f.dest = r)
    IN SubSeq(to, 1, Len(to) - Len(down[r]))

\* the message of a DATA frame
MessageOf(f) == Message(f.src, f.dest, f.tag, loads(f.payload))

\* worker r reads the frame at the front of its socket
ReadsFrame(r) == down[r] # <<>> /\ down'[r] = Tail(down[r])

\* C25: a worker's inbox only holds messages of DATA frames it received; a
\* CONTROL frame with the tag CANCEL sets the cancel signal and is not
\* enqueued; a CONTROL frame with any other tag changes neither the inbox
\* nor the signal and does not stop the receive loop.
C25_RecvDispatch ==
    /\ [](\A r \in Workers :
            /\ \A k \in 1..Len(inbox[r]) :
                  \E i \in 1..Len(FramesRead(r)) :
                     /\ FramesRead(r)[i].type = DATA
                     /\ inbox[r][k] = MessageOf(FramesRead(r)[i])
            /\ cancel[r] <=> \E i \in 1..Len(FramesRead(r)) :
                                /\ FramesRead(r)[i].type = CONTROL
                                /\ FramesRead(r)[i].tag = CANCEL_TAG
            /\ down[r] # <<>> => ENABLED RecvLoop(r))
    /\ [][\A r \in Workers : ReadsFrame(r) =>
             LET f == Head(down[r])
             IN /\ f.type = DATA =>
                     /\ inbox'[r] = Append(inbox[r], MessageOf(f))
                     /\ cancel'[r] = cancel[r]
                /\ f.type = CONTROL /\ f.tag = CANCEL_TAG =>
                     /\ cancel'[r]
                     /\ inbox'[r] = inbox[r]
                /\ f.type = CONTROL /\ f.tag # CANCEL_TAG =>
                     /\ inbox'[r] = inbox[r]
                     /\ cancel'[r] = cancel[r]
                     /\ wpc'[r] = wpc[r]]_vars

\* worker 1 has read a CONTROL frame with another tag, then a DATA frame
\* that is in its inbox, then a CONTROL frame with the tag CANCEL
C25_Witness ==
    /\ Len(FramesRead(1)) = 3
    /\ FramesRead(1)[1].type = CONTROL /\ FramesRead(1)[1].tag = HELLO_TAG
    /\ FramesRead(1)[2].type = DATA
    /\ FramesRead(1)[3].type = CONTROL /\ FramesRead(1)[3].tag = CANCEL_TAG
    /\ Len(inbox[1]) = 1
    /\ cancel[1]


(* --------------- AcceptSpec: accept_all and _handshake ---------------- *)
\* number of clients that may connect to the listening socket
MaxClients == 3

\* class TransportError(RuntimeError), as a value no rank is equal to
TransportError == -5

Clients == 1..MaxClients

\* the rank field of a hello frame: the ranks of the world, and MaxSize,
\* which is outside it
HelloRanks == 0..MaxSize

\* a client that has sent nothing
NoFrame == pack_message(None, None, None, None, <<>>)

\* what connect_to_master sends after connecting
HelloFrame(rank) == pack_message(CONTROL, rank, 0, HELLO_TAG, dumps([rank |-> rank]))

\* variant of MasterRouter_handshake: the type and tag of the frame are not tested
MasterRouter_handshake_lax(frame) ==
    IF frame.payload = <<>> THEN 0 ELSE loads(frame.payload).rank

\* MasterRouter._handshake on the first frame of a client
MasterRouter_handshake(frame) ==
    LET h == unpack_header(frame)
    IN IF h.type # CONTROL \/ h.tag # HELLO_TAG
       THEN TransportError
       ELSE loads(frame.payload).rank

\* a process connects to the listening socket of the master
Client_connect(c) ==
    /\ acc.pc # "off"
    /\ acc.cst[c] = "new"
    /\ acc' = [acc EXCEPT !.cst[c] = "connected", !.backlog = Append(@, c)]
    /\ UNCHANGED <<netvars, collvars, jobvars, rx, sentLog, nrecv, filterMix, wire, wr>>

\* a connected client sends a hello frame as its first frame
Client_hello(c, rank) ==
    /\ acc.pc # "off"
    /\ acc.cst[c] = "connected"
    /\ acc.sent[c] = NoFrame
    /\ acc' = [acc EXCEPT !.sent[c] = HelloFrame(rank)]
    /\ UNCHANGED <<netvars, collvars, jobvars, rx, sentLog, nrecv, filterMix, wire, wr>>

\* a connected client sends a first frame that is not a hello frame
Client_other(c, msg_type, tag) ==
    /\ acc.pc # "off"
    /\ acc.cst[c] = "connected"
    /\ acc.sent[c] = NoFrame
    /\ msg_type # CONTROL \/ tag # HELLO_TAG
    /\ acc' = [acc EXCEPT !.sent[c] = pack_message(msg_type, c, 0, tag, <<>>)]
    /\ UNCHANGED <<netvars, collvars, jobvars, rx, sentLog, nrecv, filterMix, wire, wr>>

\* accept_all: server.accept() returns the next connection
Accept_accept ==
    /\ acc.pc = "loop"
    /\ acc.backlog # <<>>
    /\ acc' = [acc EXCEPT !.pc = "handshake", !.cur = Head(acc.backlog),
                          !.backlog = Tail(@)]
    /\ UNCHANGED <<netvars, collvars, jobvars, rx, sentLog, nrecv, filterMix, wire, wr>>

\* accept_all: server.accept() raises socket.timeout
Accept_timeout ==
    /\ acc.pc = "loop"
    /\ acc.backlog = <<>>
    /\ acc' = [acc EXCEPT !.pc = "TransportError"]
    /\ UNCHANGED <<netvars, collvars, jobvars, rx, sentLog, nrecv, filterMix, wire, wr>>

\* accept_all after accept: _handshake reads the first frame of the client
\* (a read with no timeout), then the duplicate test, the store, the start
\* of the route loop and the test of the while loop
Accept_handshake ==
    /\ acc.pc = "handshake"
    /\ acc.sent[acc.cur] # NoFrame
    /\ LET client == acc.cur
           rank == MasterRouter_handshake(acc.sent[client])
       IN IF rank = TransportError
          THEN acc' = [acc EXCEPT !.pc = "TransportError"]
          ELSE IF rank \in DOMAIN acc.table
          THEN acc' = [acc EXCEPT !.pc = "TransportError", !.closed = @ \cup {client}]
          ELSE LET table == acc.table @@ (rank :> client)
               IN acc' = [acc EXCEPT
                             !.table = table,
                             !.loops = @ \cup {<<rank, client>>},
                             !.pc = IF Cardinality(DOMAIN table) < acc.expected_workers
                                    THEN "loop" ELSE "done"]
    /\ UNCHANGED <<netvars, collvars, jobvars, rx, sentLog, nrecv, filterMix, wire, wr>>

AcceptInit ==
    /\ NetInit
    /\ CollIdle
    /\ JobIdle
    /\ rx = 0
    /\ sentLog = [r \in Ranks |-> <<>>]
    /\ nrecv = 0
    /\ filterMix = "none"
    /\ WireIdle
    /\ WriteIdle
    /\ acc = [pc |-> "loop", cur |-> 0, expected_workers |-> MaxSize - 1,
              backlog |-> <<>>, cst |-> [c \in Clients |-> "new"],
              sent |-> [c \in Clients |-> NoFrame], table |-> <<>>, loops |-> {},
              closed |-> {}]

AcceptNext ==
    \/ \E c \in Clients : Client_connect(c)
    \/ \E c \in Clients, rank \in HelloRanks : Client_hello(c, rank)
    \/ \E c \in Clients, msg_type \in {DATA, CONTROL}, tag \in {HELLO_TAG, TAG_USER} :
          Client_other(c, msg_type, tag)
    \/ Accept_accept
    \/ Accept_timeout
    \/ Accept_handshake

AcceptSpec == AcceptInit /\ [][AcceptNext]_vars

\* the master's thread keeps running, and the deadline of accept passes;
\* nothing makes a client send
AcceptLive ==
    AcceptSpec /\ WF_vars(Accept_accept) /\ WF_vars(Accept_timeout) /\ WF_vars(Accept_handshake)

(* ---------------------- properties of AcceptSpec ---------------------- *)
\* C26: when accept_all returns successfully, the rank table holds exactly
\* one connection for each rank in [1, world_size) and no entry for any
\* other rank, with one route loop per entry, for every sequence of hello
\* frames the clients may send.
C26_RankTableComplete ==
    acc.pc = "done" =>
        /\ DOMAIN acc.table = 1..(MaxSize - 1)
        /\ acc.loops = {<<r, acc.table[r]>> : r \in DOMAIN acc.table}


\* the first frame of client c is not a CONTROL frame with the tag HELLO
NotHello(c) ==
    /\ acc.sent[c] # NoFrame
    /\ acc.sent[c].type # CONTROL \/ acc.sent[c].tag # HELLO_TAG

\* the first frame of client c is a hello frame with a rank the table has
DuplicateHello(c) ==
    /\ acc.sent[c] # NoFrame
    /\ ~NotHello(c)
    /\ loads(acc.sent[c].payload).rank \in DOMAIN acc.table

\* the clients the rank table holds
Stored == {acc.table[r] : r \in DOMAIN acc.table}

\* C27: a connection whose first frame is not CONTROL/HELLO, or whose hello
\* rank is already registered, makes accept_all fail with TransportError;
\* that connection is never stored and gets no route loop, and the
\* connection registered before stays.
C27_BadHandshakeRejected ==
    /\ [][acc.pc = "handshake" /\ acc'.pc # "handshake"
             /\ (NotHello(acc.cur) \/ DuplicateHello(acc.cur)) =>
                /\ acc'.pc = "TransportError"
                /\ acc'.table = acc.table
                /\ acc'.loops = acc.loops]_vars
    /\ [][acc.pc = "TransportError" =>
             acc'.pc = acc.pc /\ acc'.table = acc.table /\ acc'.loops = acc.loops]_vars
    /\ [](\A c \in Clients :
             NotHello(c) => c \notin Stored /\ \A r \in HelloRanks : <<r, c>> \notin acc.loops)
    /\ [](\A c \in acc.closed :
             c \notin Stored /\ \A r \in HelloRanks : <<r, c>> \notin acc.loops)

\* accept_all has failed on a hello frame whose rank was registered, and the
\* connection registered first is still in the table
C27_Witness ==
    /\ acc.pc = "TransportError"
    /\ acc.cur \in acc.closed
    /\ \E r \in DOMAIN acc.table \cap Workers :
          /\ acc.table[r] # acc.cur
          /\ acc.sent[acc.cur] = HelloFrame(r)
          /\ <<r, acc.table[r]>> \in acc.loops

\* C28: if fewer than expected_workers clients complete the handshake,
\* accept_all eventually fails with TransportError once the deadline has
\* elapsed, also when a client has connected but never sends its hello
\* frame.
C28_AcceptFailsAtDeadline == <>(acc.pc \in {"done", "TransportError"})


(* -------------------- more properties of JobSpec ---------------------- *)
\* C29: in every reachable state of the master, the job-active flag being
\* true implies that exactly one communicator is installed as the current
\* communicator and that a job function is running.
C29_ActiveMeansRunning ==
    JOB_ACTIVE => COMM_WORLD = "Comm" /\ \E t \in Threads : pc[t] = "fn"

(* ------------------- more properties of CancelSpec -------------------- *)
\* the run call of thread t has gone through its whole teardown and returned
RunOver(t) == pc[t] = "idle" /\ tdown[t] = AllTeardown

\* C30: a cancel_job call that overlaps the teardown of run either fails
\* with JobStateError or has its effect cleared by the teardown: once both
\* calls have finished, cancel_requested is false.
C30_CancelClearedByTeardown ==
    (cpc = "idle" /\ cout # "none" /\ \E t \in Threads : RunOver(t) /\ ~JOB_ACTIVE) =>
        \/ cout = "JobStateError"
        \/ ~cancel[0]

=============================================================================
